---- MODULE Spec2Model ----
(***************************************************************************)
(* PolkaPulse pvm-modules: the fixed-point math primitives (math_lib.rs)   *)
(* and the yield optimizer pipeline (yield_optimizer.rs).                  *)
(*                                                                         *)
(* The Rust code computes on u128/u64/u32.  TLC's integers are 32-bit, so  *)
(* every program integer is held as a wide natural: a little-endian        *)
(* sequence of limbs in 0..Radix-1 with no leading zero limb (zero is the  *)
(* empty sequence).  Wide arithmetic is exact; the widths of the Rust      *)
(* types appear where the code checks or narrows them (checked_*, `as`).   *)
(***************************************************************************)
EXTENDS Integers, Sequences, FiniteSets, TLC

(***************************************************************************)
(* Wide naturals                                                           *)
(***************************************************************************)
Radix == 10000

\* Largest divisor handled limb by limb with machine integers
\* (SmallMax * Radix + Radix stays below 2^31).
SmallMax == 200000

Limb(a, i) == IF i <= Len(a) THEN a[i] ELSE 0

Max(i, j) == IF i >= j THEN i ELSE j

\* The largest element of a non-empty set of integers
Top(S) == CHOOSE i \in S : \A j \in S : j <= i

\* Drop leading (most significant) zero limbs
Norm(a) ==
    LET nz == {i \in 1..Len(a) : a[i] # 0}
    IN  IF nz = {} THEN << >> ELSE SubSeq(a, 1, Top(nz))

\* A machine integer 0 <= n < Radix^3 as a wide natural
FromInt(n) ==
    Norm(<<n % Radix, (n \div Radix) % Radix, n \div (Radix * Radix)>>)

\* Value of a wide natural of at most two limbs
ToInt(a) == Limb(a, 1) + Radix * Limb(a, 2)

IsZero(a) == a = << >>

\* -1, 0, 1 as a < b, a = b, a > b
Cmp(a, b) ==
    IF Len(a) < Len(b) THEN -1
    ELSE IF Len(a) > Len(b) THEN 1
    ELSE LET d == {i \in 1..Len(a) : a[i] # b[i]}
         IN  IF d = {} THEN 0
             ELSE IF a[Top(d)] < b[Top(d)] THEN -1 ELSE 1

Lt(a, b) == Cmp(a, b) < 0
Leq(a, b) == Cmp(a, b) <= 0
Gt(a, b) == Cmp(a, b) > 0

\* a + b: limb sums s, and a carry into limb i exactly when some lower limb
\* j overflows and every limb between j and i is Radix - 1
Add(a, b) ==
    LET n == Max(Len(a), Len(b))
        s == [i \in 1..n |-> Limb(a, i) + Limb(b, i)]
        c(i) == IF \E j \in 1..(i - 1) :
                      /\ s[j] >= Radix
                      /\ \A k \in (j + 1)..(i - 1) : s[k] = Radix - 1
                THEN 1 ELSE 0
    IN  Norm([i \in 1..(n + 1) |->
                 IF i <= n THEN (s[i] + c(i)) % Radix ELSE c(i)])

\* a - b for a >= b: a borrow from limb i exactly when some lower limb j has
\* a[j] < b[j] and every limb between j and i has a[k] = b[k]
Sub(a, b) ==
    LET bw(i) == IF \E j \in 1..(i - 1) :
                       /\ a[j] < Limb(b, j)
                       /\ \A k \in (j + 1)..(i - 1) : a[k] = Limb(b, k)
                 THEN 1 ELSE 0
    IN  Norm([i \in 1..Len(a) |->
                 (a[i] - Limb(b, i) - bw(i) + Radix) % Radix])

\* a * k for one limb k: the low and the high halves of the limb products
MulLimb(a, k) ==
    IF k = 0 \/ a = << >> THEN << >>
    ELSE Add([i \in 1..Len(a) |-> (a[i] * k) % Radix],
             <<0>> \o [i \in 1..Len(a) |-> (a[i] * k) \div Radix])

\* acc is a * (the limbs b[j+1..Len(b)] read as a number)
RECURSIVE MulFrom(_, _, _, _)
MulFrom(a, b, j, acc) ==
    IF j = 0 THEN acc
    ELSE IF acc = << >> THEN MulFrom(a, b, j - 1, MulLimb(a, b[j]))
    ELSE MulFrom(a, b, j - 1, Add(MulLimb(a, b[j]), <<0>> \o acc))

Mul(a, b) ==
    IF a = << >> \/ b = << >> THEN << >>
    ELSE IF Len(a) < Len(b) THEN MulFrom(b, a, Len(a), << >>)
    ELSE MulFrom(a, b, Len(b), << >>)

\* floor(a / k) for a machine integer k, 0 < k <= SmallMax: limbs a[i+1..]
\* have been divided and left the remainder r
RECURSIVE DivSmallFrom(_, _, _, _)
DivSmallFrom(a, k, i, r) ==
    IF i = 0 THEN << >>
    ELSE LET cur == r * Radix + a[i]
         IN  DivSmallFrom(a, k, i - 1, cur % k) \o <<cur \div k>>

DivSmall(a, k) == Norm(DivSmallFrom(a, k, Len(a), 0))

\* Largest q in lo..hi with q * b <= r (q = lo is known to satisfy it).
RECURSIVE QuotDigit(_, _, _, _)
QuotDigit(r, b, lo, hi) ==
    IF lo >= hi THEN lo
    ELSE LET mid == (lo + hi + 1) \div 2
         IN  IF Leq(MulLimb(b, mid), r)
             THEN QuotDigit(r, b, mid, hi)
             ELSE QuotDigit(r, b, lo, mid - 1)

\* floor(r / b) for r < b * Radix.  With rt the limbs of r at and above the
\* top limb bt of b, the digit lies in rt \div (bt + 1) .. rt \div bt.
QuotOf(r, b) ==
    LET bt == b[Len(b)]
        rt == Limb(r, Len(b)) + Radix * Limb(r, Len(b) + 1)
        hi == rt \div bt
    IN  QuotDigit(r, b, rt \div (bt + 1), IF hi > Radix - 1 THEN Radix - 1 ELSE hi)

\* Long division state: <<quotient so far, running remainder, index of the
\* next limb of a to bring down (0 when none is left)>>.
\* One step brings limb a[st[3]] down and puts the next quotient digit in front.
LongDivStep(a, b, st) ==
    LET r == Norm(<<a[st[3]]>> \o st[2])
        d == QuotOf(r, b)
    IN  <<(<<d>> \o st[1]), Sub(r, MulLimb(b, d)), st[3] - 1>>

\* n steps from state st (fewer when the limbs run out)
RECURSIVE LongDivSteps(_, _, _, _)
LongDivSteps(a, b, n, st) ==
    IF st[3] = 0 \/ n = 0 THEN st
    ELSE IF n = 1 THEN LongDivStep(a, b, st)
    ELSE LongDivSteps(a, b, n - n \div 2, LongDivSteps(a, b, n \div 2, st))

\* floor(a / b) for b > 0
RECURSIVE Div(_, _)
Div(a, b) ==
    IF Lt(a, b) THEN << >>
    ELSE IF Len(b) <= 2 /\ ToInt(b) <= SmallMax THEN DivSmall(a, ToInt(b))
    \* floor(a / (Radix * b1)) = floor(floor(a / Radix) / b1)
    ELSE IF b[1] = 0 THEN Div(Tail(a), Tail(b))
    \* the top Len(b) - 1 limbs of a are below b: they start the remainder
    ELSE Norm(LongDivSteps(a, b, Len(a) - Len(b) + 1,
                  << << >>, Norm(SubSeq(a, Len(a) - Len(b) + 2, Len(a))),
                     Len(a) - Len(b) + 1 >>)[1])

\* a mod b for b > 0
Mod(a, b) == Sub(a, Mul(Div(a, b), b))

(***************************************************************************)
(* Integer widths and constants of math_lib.rs                             *)
(***************************************************************************)
Zero == << >>
One == <<1>>
Hundred == <<100>>

\* u128::MAX = 340282366920938463463374607431768211455
U128_MAX == <<1455, 6821, 4317, 4607, 6337, 4634, 938, 6692, 2823, 340>>
\* u64::MAX = 18446744073709551615
U64_MAX == <<1615, 955, 737, 6744, 1844>>
\* u32::MAX = 4294967295
U32_MAX == <<7295, 9496, 42>>

\* 1 DOT = 10^18 units
PRECISION == <<0, 0, 0, 0, 100>>
BPS_DENOMINATOR == <<0, 1>>
SECONDS_PER_YEAR == <<6000, 3153>>
MAX_RISK_SCORE == <<0, 1>>

\* Result<T, E>
Ok(v) == [tag |-> "Ok", val |-> v]
Err(e) == [tag |-> "Err", val |-> e]
IsOk(r) == r.tag = "Ok"
IsErr(r) == r.tag = "Err"

\* Option<u128> of the checked_* operations: None is <<-1>>, no wide natural
None == <<-1>>
IsNone(x) == x = None
IsSome(x) == x # None

\* x.ok_or(e)
ok_or(x, e) == IF IsNone(x) THEN Err(e) ELSE Ok(x)

\* `let x = v;`: Only({e : x \in {v}}) is e with x bound to the value of v
Only(S) == CHOOSE x \in S : TRUE

\* The value of x if it fits the width whose largest value is max
Fits(x, max) == IF Gt(x, max) THEN None ELSE x

checked_add(a, b) == Fits(Add(a, b), U128_MAX)
checked_sub(a, b) == IF Lt(a, b) THEN None ELSE Sub(a, b)
checked_mul(a, b) == Fits(Mul(a, b), U128_MAX)
checked_div(a, b) == IF IsZero(b) THEN None ELSE Div(a, b)

\* u64::checked_sub
checked_sub_u64(a, b) == IF Lt(a, b) THEN None ELSE Sub(a, b)

\* `x as u32`, `x as u64`: the low 32 (64) bits
AsU32(x) == IF Leq(x, U32_MAX) THEN x ELSE Mod(x, Add(U32_MAX, One))
AsU64(x) == IF Leq(x, U64_MAX) THEN x ELSE Mod(x, Add(U64_MAX, One))

(***************************************************************************)
(* math_lib::compound                                                      *)
(***************************************************************************)
\* A variant of the loop body that divides before it multiplies
CompoundStepDivideFirst(amount, numerator_factor, denominator_factor) ==
    IF IsErr(amount) THEN amount
    ELSE Only({ IF IsNone(quotient) THEN Err("DivisionByZero")
                ELSE ok_or(checked_mul(quotient, numerator_factor), "Overflow") :
                  quotient \in {checked_div(amount.val, denominator_factor)} })

\* A variant of the loop body with the two factors exchanged
CompoundStepSwappedFactors(amount, numerator_factor, denominator_factor) ==
    IF IsErr(amount) THEN amount
    ELSE Only({ IF IsNone(product) THEN Err("Overflow")
                ELSE ok_or(checked_div(product, numerator_factor),
                           "DivisionByZero") :
                  product \in {checked_mul(amount.val, denominator_factor)} })

\* A variant of the loop body whose product wraps at 2^128 (wrapping_mul)
CompoundStepWrapping(amount, numerator_factor, denominator_factor) ==
    IF IsErr(amount) THEN amount
    ELSE Only({ ok_or(checked_div(product, denominator_factor),
                      "DivisionByZero") :
                  product \in {Mod(Mul(amount.val, numerator_factor),
                                   Add(U128_MAX, One))} })

\* One iteration of the loop body on the running result: an error already
\* raised has left the loop (the `?` operator).
CompoundStep(amount, numerator_factor, denominator_factor) ==
    IF IsErr(amount) THEN amount
    ELSE Only({ IF IsNone(product) THEN Err("Overflow")
                ELSE ok_or(checked_div(product, denominator_factor),
                           "DivisionByZero") :
                  product \in {checked_mul(amount.val, numerator_factor)} })

\* `for _ in 0..n`: n iterations of the body, the first half then the rest
RECURSIVE CompoundLoop(_, _, _, _)
CompoundLoop(amount, numerator_factor, denominator_factor, n) ==
    IF IsErr(amount) \/ n = 0 THEN amount
    ELSE IF n = 1 THEN CompoundStep(amount, numerator_factor, denominator_factor)
    ELSE CompoundLoop(
             CompoundLoop(amount, numerator_factor, denominator_factor, n \div 2),
             numerator_factor, denominator_factor, n - n \div 2)

\* periods is iterated as a machine integer (at most two limbs)
compound(principal, rate_bps, periods) ==
    IF IsZero(principal) THEN Ok(Zero)
    ELSE IF IsZero(rate_bps) \/ IsZero(periods) THEN Ok(principal)
    ELSE Only({
        IF IsNone(denominator_factor) THEN Err("Overflow")
        ELSE Only({
            IF IsNone(numerator_factor) THEN Err("Overflow")
            ELSE CompoundLoop(Ok(principal), numerator_factor,
                              denominator_factor, ToInt(periods)) :
              numerator_factor \in {checked_add(denominator_factor, rate_bps)} }) :
          denominator_factor \in {checked_mul(BPS_DENOMINATOR, periods)} })

(***************************************************************************)
(* math_lib::annualize                                                     *)
(***************************************************************************)
\* A variant without the range check before the `as u32`
AnnualizeUnchecked(rate_bps, period_seconds) ==
    IF IsZero(period_seconds) THEN Err("DivisionByZero")
    ELSE Only({
        IF IsNone(product) THEN Err("Overflow")
        ELSE Only({
            IF IsNone(annual) THEN Err("DivisionByZero")
            ELSE Ok(AsU32(annual)) :
              annual \in {checked_div(product, period_seconds)} }) :
          product \in {checked_mul(rate_bps, SECONDS_PER_YEAR)} })

\* A variant that returns a zero rate unchanged before it looks at the
\* window, as compound and fee_adjusted_yield do with their zero arguments
AnnualizeZeroRateFirst(rate_bps, period_seconds) ==
    IF IsZero(rate_bps) THEN Ok(Zero)
    ELSE IF IsZero(period_seconds) THEN Err("DivisionByZero")
    ELSE Only({
        IF IsNone(product) THEN Err("Overflow")
        ELSE Only({
            IF IsNone(annual) THEN Err("DivisionByZero")
            ELSE IF Gt(annual, U32_MAX) THEN Err("Overflow")
            ELSE Ok(AsU32(annual)) :
              annual \in {checked_div(product, period_seconds)} }) :
          product \in {checked_mul(rate_bps, SECONDS_PER_YEAR)} })

annualize(rate_bps, period_seconds) ==
    IF IsZero(period_seconds) THEN Err("DivisionByZero")
    ELSE Only({
        IF IsNone(product) THEN Err("Overflow")
        ELSE Only({
            IF IsNone(annual) THEN Err("DivisionByZero")
            ELSE IF Gt(annual, U32_MAX) THEN Err("Overflow")
            ELSE Ok(AsU32(annual)) :
              annual \in {checked_div(product, period_seconds)} }) :
          product \in {checked_mul(rate_bps, SECONDS_PER_YEAR)} })

(***************************************************************************)
(* math_lib::fee_adjusted_yield                                            *)
(***************************************************************************)
\* A variant of the fee that divides before it multiplies
FeeOfDivideFirst(gross_yield, fee_bps) ==
    Only({ IF IsNone(quotient) THEN Err("DivisionByZero")
           ELSE ok_or(checked_mul(quotient, fee_bps), "Overflow") :
             quotient \in {checked_div(gross_yield, BPS_DENOMINATOR)} })

\* A variant that takes the fee in percent: gross_yield * fee_bps / 100
FeeOfPercent(gross_yield, fee_bps) ==
    Only({ IF IsNone(product) THEN Err("Overflow")
           ELSE ok_or(checked_div(product, Hundred), "DivisionByZero") :
             product \in {checked_mul(gross_yield, fee_bps)} })

\* The fee: gross_yield * fee_bps / BPS_DENOMINATOR
FeeOf(gross_yield, fee_bps) ==
    Only({ IF IsNone(product) THEN Err("Overflow")
           ELSE ok_or(checked_div(product, BPS_DENOMINATOR), "DivisionByZero") :
             product \in {checked_mul(gross_yield, fee_bps)} })

\* A variant that returns a zero gross yield before it checks the fee
FeeAdjustedZeroFirst(gross_yield, fee_bps) ==
    IF IsZero(gross_yield) \/ IsZero(fee_bps) THEN Ok(gross_yield)
    ELSE IF Gt(fee_bps, BPS_DENOMINATOR) THEN Err("InvalidInput")
    ELSE Only({ IF IsErr(fee) THEN fee
                ELSE ok_or(checked_sub(gross_yield, fee.val), "Underflow") :
                  fee \in {FeeOf(gross_yield, fee_bps)} })

fee_adjusted_yield(gross_yield, fee_bps) ==
    IF Gt(fee_bps, BPS_DENOMINATOR) THEN Err("InvalidInput")
    ELSE IF IsZero(gross_yield) \/ IsZero(fee_bps) THEN Ok(gross_yield)
    ELSE Only({ IF IsErr(fee) THEN fee
                ELSE ok_or(checked_sub(gross_yield, fee.val), "Underflow") :
                  fee \in {FeeOf(gross_yield, fee_bps)} })

(***************************************************************************)
(* math_lib::weighted_average                                              *)
(***************************************************************************)
\* A variant of the loop body that counts the pair in place of adding its
\* weight to total_weight
WeightedStepCounting(v, w, acc) ==
    IF IsErr(acc) THEN acc
    ELSE Only({
        IF IsNone(product) THEN Err("Overflow")
        ELSE Only({
            IF IsNone(weighted_sum) THEN Err("Overflow")
            ELSE Only({
                IF IsNone(total_weight) THEN Err("Overflow")
                ELSE Ok(<<weighted_sum, total_weight>>) :
                  total_weight \in {checked_add(acc.val[2], One)} }) :
              weighted_sum \in {checked_add(acc.val[1], product)} }) :
          product \in {checked_mul(v, w)} })

\* The loop body for the pair (v, w) on the running
\* <<weighted_sum, total_weight>>
WeightedStep(v, w, acc) ==
    IF IsErr(acc) THEN acc
    ELSE Only({
        IF IsNone(product) THEN Err("Overflow")
        ELSE Only({
            IF IsNone(weighted_sum) THEN Err("Overflow")
            ELSE Only({
                IF IsNone(total_weight) THEN Err("Overflow")
                ELSE Ok(<<weighted_sum, total_weight>>) :
                  total_weight \in {checked_add(acc.val[2], w)} }) :
              weighted_sum \in {checked_add(acc.val[1], product)} }) :
          product \in {checked_mul(v, w)} })

\* `for (v, w) in values.iter().zip(weights.iter())` from pair i on
RECURSIVE WeightedLoop(_, _, _, _)
WeightedLoop(values, weights, i, acc) ==
    IF IsErr(acc) \/ i > Len(values) \/ i > Len(weights) THEN acc
    ELSE WeightedLoop(values, weights, i + 1,
                      WeightedStep(values[i], weights[i], acc))

\* A variant that checks only that values is not empty and lets zip stop
\* at the shorter slice
WeightedAverageZipShorter(values, weights) ==
    IF Len(values) = 0 THEN Err("InvalidInput")
    ELSE Only({
        IF IsErr(sums) THEN sums
        ELSE IF IsZero(sums.val[2]) THEN Err("DivisionByZero")
        ELSE ok_or(checked_div(sums.val[1], sums.val[2]), "DivisionByZero") :
          sums \in {WeightedLoop(values, weights, 1, Ok(<<Zero, Zero>>))} })

\* A variant that rounds the quotient half up
WeightedAverageRounded(values, weights) ==
    IF Len(values) = 0 \/ Len(values) # Len(weights) THEN Err("InvalidInput")
    ELSE Only({
        IF IsErr(sums) THEN sums
        ELSE IF IsZero(sums.val[2]) THEN Err("DivisionByZero")
        ELSE ok_or(checked_div(Add(sums.val[1], DivSmall(sums.val[2], 2)),
                               sums.val[2]), "DivisionByZero") :
          sums \in {WeightedLoop(values, weights, 1, Ok(<<Zero, Zero>>))} })

weighted_average(values, weights) ==
    IF Len(values) = 0 \/ Len(values) # Len(weights) THEN Err("InvalidInput")
    ELSE Only({
        IF IsErr(sums) THEN sums
        ELSE IF IsZero(sums.val[2]) THEN Err("DivisionByZero")
        ELSE ok_or(checked_div(sums.val[1], sums.val[2]), "DivisionByZero") :
          sums \in {WeightedLoop(values, weights, 1, Ok(<<Zero, Zero>>))} })

(***************************************************************************)
(* math_lib::optimal_split                                                 *)
(***************************************************************************)
\* yield * (MAX_RISK_SCORE - risk) / MAX_RISK_SCORE
RiskAdjusted(yield_bps, risk) ==
    Only({
        IF IsNone(headroom) THEN Err("Underflow")
        ELSE Only({
            IF IsNone(product) THEN Err("Overflow")
            ELSE ok_or(checked_div(product, MAX_RISK_SCORE), "DivisionByZero") :
              product \in {checked_mul(yield_bps, headroom)} }) :
          headroom \in {checked_sub(MAX_RISK_SCORE, risk)} })

\* A variant that subtracts the other way round: pct_a - 100
ComplementReversed(pct_a) ==
    Only({ IF IsNone(pct_b) THEN Err("Underflow") ELSE Ok(<<pct_a, pct_b>>) :
             pct_b \in {checked_sub_u64(pct_a, Hundred)} })

\* pct_b = 100 - pct_a in u64
Complement(pct_a) ==
    Only({ IF IsNone(pct_b) THEN Err("Underflow") ELSE Ok(<<pct_a, pct_b>>) :
             pct_b \in {checked_sub_u64(Hundred, pct_a)} })

\* A variant that rounds pct_a half up
ShareOfRounded(adj_a, total) ==
    Only({
        IF IsNone(scaled) THEN Err("Overflow")
        ELSE Only({
            IF IsNone(share) THEN Err("DivisionByZero")
            ELSE Complement(AsU64(share)) :
              share \in {checked_div(Add(scaled, DivSmall(total, 2)), total)} }) :
          scaled \in {checked_mul(adj_a, Hundred)} })

\* pct_a = (adj_a * 100 / total) as u64, and pct_b from it
ShareOf(adj_a, total) ==
    Only({
        IF IsNone(scaled) THEN Err("Overflow")
        ELSE Only({
            IF IsNone(share) THEN Err("DivisionByZero")
            ELSE Complement(AsU64(share)) :
              share \in {checked_div(scaled, total)} }) :
          scaled \in {checked_mul(adj_a, Hundred)} })

\* A variant that gives each side its own floored share of the total
SplitBothFloored(adj_a, adj_b) ==
    Only({
        IF IsNone(total) THEN Err("Overflow")
        ELSE IF IsZero(total) THEN Ok(<<FromInt(50), FromInt(50)>>)
        ELSE Ok(<<Div(Mul(adj_a, Hundred), total),
                  Div(Mul(adj_b, Hundred), total)>>) :
          total \in {checked_add(adj_a, adj_b)} })

\* A variant without the 50/50 fallback for a zero total
SplitOfNoFallback(adj_a, adj_b) ==
    Only({
        IF IsNone(total) THEN Err("Overflow")
        ELSE ShareOf(adj_a, total) :
          total \in {checked_add(adj_a, adj_b)} })

\* A variant that takes the share of the other side as pct_a
SplitOfOtherSide(adj_a, adj_b) ==
    Only({
        IF IsNone(total) THEN Err("Overflow")
        ELSE IF IsZero(total) THEN Ok(<<FromInt(50), FromInt(50)>>)
        ELSE ShareOf(adj_b, total) :
          total \in {checked_add(adj_a, adj_b)} })

\* The split once both risk-adjusted yields are known
SplitOf(adj_a, adj_b) ==
    Only({
        IF IsNone(total) THEN Err("Overflow")
        ELSE IF IsZero(total) THEN Ok(<<FromInt(50), FromInt(50)>>)
        ELSE ShareOf(adj_a, total) :
          total \in {checked_add(adj_a, adj_b)} })

\* Both risk-adjusted yields, then the split
SplitAdjusted(yield_a_bps, yield_b_bps, risk_a, risk_b) ==
    Only({
        IF IsErr(adj_a) THEN adj_a
        ELSE Only({
            IF IsErr(adj_b) THEN adj_b ELSE SplitOf(adj_a.val, adj_b.val) :
              adj_b \in {RiskAdjusted(yield_b_bps, risk_b)} }) :
          adj_a \in {RiskAdjusted(yield_a_bps, risk_a)} })

\* A variant without the check of the risk scores
OptimalSplitUnchecked(yield_a_bps, yield_b_bps, risk_a, risk_b) ==
    SplitAdjusted(yield_a_bps, yield_b_bps, risk_a, risk_b)

optimal_split(yield_a_bps, yield_b_bps, risk_a, risk_b) ==
    IF Gt(risk_a, MAX_RISK_SCORE) \/ Gt(risk_b, MAX_RISK_SCORE)
    THEN Err("InvalidInput")
    ELSE SplitAdjusted(yield_a_bps, yield_b_bps, risk_a, risk_b)

(***************************************************************************)
(* yield_optimizer::optimize, one `let` statement at a time                *)
(***************************************************************************)
\* OptimizerError: the pipeline-level InvalidInput, or Math(e)
InvalidInput == <<"InvalidInput", "">>
Math(e) == <<"Math", e>>

\* The statements of optimize after validation, in program order
Statements ==
    << "hydradx_compounded", "hydradx_gross_yield",
       "interlay_compounded", "interlay_gross_yield",
       "hydradx_net_yield", "interlay_net_yield",
       "hydradx_net_apy_bps", "interlay_net_apy_bps",
       "split",
       "hydradx_principal", "interlay_principal",
       "hydradx_final", "interlay_final",
       "total_final", "expected_yield_dot", "blended_apy_bps" >>

StatementIndex(s) == CHOOSE i \in 1..Len(Statements) : Statements[i] = s

\* Where control goes after statement s succeeds
After(s) ==
    IF StatementIndex(s) = Len(Statements) THEN "return"
    ELSE Statements[StatementIndex(s) + 1]

\* The local variables of optimize; None until their statement has run
NoLocals ==
    [ hydradx_compounded |-> None, hydradx_gross_yield |-> None,
      interlay_compounded |-> None, interlay_gross_yield |-> None,
      hydradx_net_yield |-> None, interlay_net_yield |-> None,
      hydradx_net_apy_bps |-> None, interlay_net_apy_bps |-> None,
      hydradx_pct |-> None, interlay_pct |-> None,
      hydradx_principal |-> None, interlay_principal |-> None,
      hydradx_final |-> None, interlay_final |-> None,
      total_final |-> None, expected_yield_dot |-> None,
      blended_apy_bps |-> None ]

\* A variant that rounds the quotient up
MulDivCeil(a, b, c) ==
    Only({ IF IsNone(product) THEN Err("Overflow")
           ELSE IF IsZero(c) THEN Err("DivisionByZero")
           ELSE Ok(Div(Add(product, Sub(c, One)), c)) :
             product \in {checked_mul(a, b)} })

\* a.checked_mul(b).ok_or(Overflow)?.checked_div(c).ok_or(DivisionByZero)
MulDiv(a, b, c) ==
    Only({ IF IsNone(product) THEN Err("Overflow")
           ELSE ok_or(checked_div(product, c), "DivisionByZero") :
             product \in {checked_mul(a, b)} })

\* The value a statement computes from the input and the locals bound so
\* far, before any `as` narrowing: a MathResult
Compute(s, in, l) ==
    CASE s = "hydradx_compounded" ->
           compound(in.principal, in.hydradx_apy_bps, in.projection_periods)
      [] s = "hydradx_gross_yield" ->
           ok_or(checked_sub(l.hydradx_compounded, in.principal), "Underflow")
      [] s = "interlay_compounded" ->
           compound(in.principal, in.interlay_apy_bps, in.projection_periods)
      [] s = "interlay_gross_yield" ->
           ok_or(checked_sub(l.interlay_compounded, in.principal), "Underflow")
      [] s = "hydradx_net_yield" ->
           fee_adjusted_yield(l.hydradx_gross_yield, in.hydradx_fee_bps)
      [] s = "interlay_net_yield" ->
           fee_adjusted_yield(l.interlay_gross_yield, in.interlay_fee_bps)
      [] s = "hydradx_net_apy_bps" ->
           MulDiv(l.hydradx_net_yield, BPS_DENOMINATOR, in.principal)
      [] s = "interlay_net_apy_bps" ->
           MulDiv(l.interlay_net_yield, BPS_DENOMINATOR, in.principal)
      [] s = "split" ->
           optimal_split(l.hydradx_net_apy_bps, l.interlay_net_apy_bps,
                         in.hydradx_risk_score, in.interlay_risk_score)
      [] s = "hydradx_principal" ->
           MulDiv(in.principal, l.hydradx_pct, Hundred)
      [] s = "interlay_principal" ->
           ok_or(checked_sub(in.principal, l.hydradx_principal), "Underflow")
      [] s = "hydradx_final" ->
           compound(l.hydradx_principal, l.hydradx_net_apy_bps,
                    in.projection_periods)
      [] s = "interlay_final" ->
           compound(l.interlay_principal, l.interlay_net_apy_bps,
                    in.projection_periods)
      [] s = "total_final" ->
           ok_or(checked_add(l.hydradx_final, l.interlay_final), "Overflow")
      [] s = "expected_yield_dot" ->
           ok_or(checked_sub(l.total_final, in.principal), "Underflow")
      [] s = "blended_apy_bps" ->
           weighted_average(<<l.hydradx_net_apy_bps, l.interlay_net_apy_bps>>,
                            <<l.hydradx_pct, l.interlay_pct>>)

\* A variant that narrows the value of every statement to 32 bits
NarrowEveryValue(s, v) == IF s = "split" THEN v ELSE AsU32(v)

\* The `as u32` narrowing the statement applies to its value, if any
Narrow(s, v) ==
    IF s \in {"hydradx_net_apy_bps", "interlay_net_apy_bps", "blended_apy_bps"}
    THEN AsU32(v)
    ELSE v

\* The locals after statement s has bound the (narrowed) value v
Bound(s, l, v) ==
    IF s = "split"
    THEN [l EXCEPT !.hydradx_pct = v[1], !.interlay_pct = v[2]]
    ELSE [l EXCEPT ![s] = v]

\* A variant whose second flag repeats the first
RecommendationOneFlag(l) ==
    [ use_hydradx |-> Gt(l.hydradx_pct, Zero),
      use_interlay |-> Gt(l.hydradx_pct, Zero),
      hydradx_allocation_pct |-> l.hydradx_pct,
      interlay_allocation_pct |-> l.interlay_pct,
      projected_net_apy_bps |-> l.blended_apy_bps,
      expected_yield_dot |-> l.expected_yield_dot ]

\* The struct literal optimize returns
Recommendation(l) ==
    [ use_hydradx |-> Gt(l.hydradx_pct, Zero),
      use_interlay |-> Gt(l.interlay_pct, Zero),
      hydradx_allocation_pct |-> l.hydradx_pct,
      interlay_allocation_pct |-> l.interlay_pct,
      projected_net_apy_bps |-> l.blended_apy_bps,
      expected_yield_dot |-> l.expected_yield_dot ]

\* A variant that leaves the fees unchecked
ValidWithoutFees(in) ==
    /\ ~IsZero(in.principal)
    /\ ~IsZero(in.projection_periods)

\* The input validation at the head of optimize: TRUE when the input passes
Valid(in) ==
    /\ ~IsZero(in.principal)
    /\ ~IsZero(in.projection_periods)
    /\ ~(Gt(in.hydradx_fee_bps, BPS_DENOMINATOR)
         \/ Gt(in.interlay_fee_bps, BPS_DENOMINATOR))

(***************************************************************************)
(* abi.rs and the yield optimizer precompile                               *)
(***************************************************************************)
\* A payload is its first (at most four) bytes and, after them, its 32-byte
\* words, each word the unsigned number it holds.  A response is its words.
SEL_OPTIMIZE == <<111, 122, 139, 156>>

ERR_INVALID_INPUT == 1
ERR_OVERFLOW == 2
ERR_UNDERFLOW == 3
ERR_DIVISION_BY_ZERO == 4
ERR_UNKNOWN_SELECTOR == 5
ERR_DECODE_FAILED == 6

optimizer_error_code(e) ==
    IF e = InvalidInput THEN ERR_INVALID_INPUT
    ELSE CASE e[2] = "Overflow" -> ERR_OVERFLOW
           [] e[2] = "Underflow" -> ERR_UNDERFLOW
           [] e[2] = "DivisionByZero" -> ERR_DIVISION_BY_ZERO
           [] e[2] = "InvalidInput" -> ERR_INVALID_INPUT

\* Token::Bool as a word
BoolWord(b) == IF b THEN One ELSE Zero

encode_error(error_code) == <<BoolWord(FALSE), FromInt(error_code)>>

encode_yield_recommendation(rec) ==
    << BoolWord(rec.use_hydradx), BoolWord(rec.use_interlay),
       rec.hydradx_allocation_pct, rec.interlay_allocation_pct,
       rec.projected_net_apy_bps, rec.expected_yield_dot >>

\* Outcomes of decode_optimizer_input: Some(input), None, or a panic
Decoded(i) == [tag |-> "Some", val |-> i]
DecodeNone == [tag |-> "None", val |-> << >>]
DecodePanic == [tag |-> "Panic", val |-> << >>]

\* ethabi::decode reads eight words and leaves the rest; as_u128 and as_u32
\* panic on a word that exceeds the width
decode_optimizer_input(words) ==
    IF Len(words) < 8 THEN DecodeNone
    ELSE IF Gt(words[1], U128_MAX) \/ \E i \in 2..8 : Gt(words[i], U32_MAX)
    THEN DecodePanic
    ELSE Decoded([ principal |-> words[1],
                   hydradx_apy_bps |-> words[2],
                   interlay_apy_bps |-> words[3],
                   hydradx_fee_bps |-> words[4],
                   interlay_fee_bps |-> words[5],
                   hydradx_risk_score |-> words[6],
                   interlay_risk_score |-> words[7],
                   projection_periods |-> words[8] ])

\* The response of call to the result of optimize
Response(r) ==
    IF IsOk(r) THEN <<BoolWord(TRUE)>> \o encode_yield_recommendation(r.val)
    ELSE encode_error(optimizer_error_code(r.val))

(***************************************************************************)
(* The math_lib precompile                                                 *)
(***************************************************************************)
SEL_COMPOUND == <<26, 43, 60, 77>>
SEL_ANNUALIZE == <<43, 60, 77, 94>>
SEL_FEE_ADJUSTED == <<60, 77, 94, 111>>
SEL_WEIGHTED_AVG == <<77, 94, 111, 122>>
SEL_OPTIMAL_SPLIT == <<94, 111, 122, 139>>

\* The error codes as math_lib_precompile.rs declares them
ML_ERR_INVALID_INPUT == 1
ML_ERR_OVERFLOW == 2
ML_ERR_UNDERFLOW == 3
ML_ERR_DIVISION_BY_ZERO == 4
ML_ERR_UNKNOWN_SELECTOR == 5
ML_ERR_DECODE_FAILED == 6

\* A variant that numbers the variants in the order MathError declares them
MathErrorCodeInDeclarationOrder(e) ==
    CASE e = "Overflow" -> 1
      [] e = "Underflow" -> 2
      [] e = "DivisionByZero" -> 3
      [] e = "InvalidInput" -> 4

math_error_code(e) ==
    CASE e = "InvalidInput" -> ML_ERR_INVALID_INPUT
      [] e = "Overflow" -> ML_ERR_OVERFLOW
      [] e = "Underflow" -> ML_ERR_UNDERFLOW
      [] e = "DivisionByZero" -> ML_ERR_DIVISION_BY_ZERO

\* ethabi::decode of a tuple of uints followed by as_u128 / as_u64 / as_u32:
\* decode fails on fewer words than fields and leaves further words alone;
\* it does not look at the width, and as_uN panics on a word above widths[i]
DecodeUints(words, widths) ==
    IF Len(words) < Len(widths) THEN DecodeNone
    ELSE IF \E i \in 1..Len(widths) : Gt(words[i], widths[i]) THEN DecodePanic
    ELSE Decoded(SubSeq(words, 1, Len(widths)))

\* ethabi::decode of the dynamic array whose offset is word `head`: the
\* offset (in bytes, a multiple of 32 in every payload explored) leads to
\* the length word, the elements follow it; an offset or a length that
\* leaves the data is an error
DecodeArray(words, head) ==
    IF Len(words) < head THEN DecodeNone
    ELSE IF Gt(words[head], FromInt(32 * Len(words))) THEN DecodeNone
    ELSE Only({
        IF k + 1 > Len(words) THEN DecodeNone
        ELSE IF Gt(words[k + 1], FromInt(Len(words))) THEN DecodeNone
        ELSE IF k + 1 + ToInt(words[k + 1]) > Len(words) THEN DecodeNone
        ELSE Decoded(SubSeq(words, k + 2, k + 1 + ToInt(words[k + 1]))) :
          k \in {ToInt(words[head]) \div 32} })

\* Both arrays of weightedAverage(uint128[], uint128[]) and, once both are
\* decoded, as_u128 on every element (a panic on an element above u128)
DecodeArrays(words) ==
    Only({
        IF values.tag = "None" \/ weights.tag = "None" THEN DecodeNone
        ELSE IF \/ \E i \in 1..Len(values.val) : Gt(values.val[i], U128_MAX)
                \/ \E i \in 1..Len(weights.val) : Gt(weights.val[i], U128_MAX)
        THEN DecodePanic
        ELSE Decoded(<<values.val, weights.val>>) :
          values \in {DecodeArray(words, 1)},
          weights \in {DecodeArray(words, 2)} })

\* What a handler leaves behind: the response and the math_lib call it
\* made, a response without any call, or a panic
Handled(out, fn, args, ret) ==
    [tag |-> "Returned", out |-> out,
     call |-> [fn |-> fn, args |-> args, ret |-> ret,
               prev |-> [args |-> << >>, ret |-> [tag |-> "Pending",
                                                  val |-> << >>]]]]
Rejected(error_code) ==
    [tag |-> "Returned", out |-> encode_error(error_code),
     call |-> [fn |-> "none", args |-> << >>,
               ret |-> [tag |-> "Pending", val |-> << >>],
               prev |-> [args |-> << >>, ret |-> [tag |-> "Pending",
                                                  val |-> << >>]]]]
Faulted ==
    [tag |-> "Panic", out |-> << >>,
     call |-> [fn |-> "none", args |-> << >>,
               ret |-> [tag |-> "Pending", val |-> << >>],
               prev |-> [args |-> << >>, ret |-> [tag |-> "Pending",
                                                  val |-> << >>]]]]

\* encode(&[Token::Bool(true), Token::Uint(result)]) or the error response
EncodeResult(r) ==
    IF IsOk(r) THEN <<BoolWord(TRUE), r.val>>
    ELSE encode_error(math_error_code(r.val))

\* encode(&[Token::Bool(true), Token::Uint(pct_a), Token::Uint(pct_b)])
EncodeSplit(r) ==
    IF IsOk(r) THEN <<BoolWord(TRUE), r.val[1], r.val[2]>>
    ELSE encode_error(math_error_code(r.val))

\* A decoded handler: reject, panic, or call fn on the decoded arguments
Undecoded(d) ==
    IF d.tag = "None" THEN Rejected(ML_ERR_DECODE_FAILED) ELSE Faulted

handle_compound(args) ==
    Only({ IF d.tag # "Some" THEN Undecoded(d)
           ELSE Only({ Handled(EncodeResult(r), "compound", d.val, r) :
                         r \in {compound(d.val[1], d.val[2], d.val[3])} }) :
             d \in {DecodeUints(args, <<U128_MAX, U32_MAX, U32_MAX>>)} })

handle_annualize(args) ==
    Only({ IF d.tag # "Some" THEN Undecoded(d)
           ELSE Only({ Handled(EncodeResult(r), "annualize", d.val, r) :
                         r \in {annualize(d.val[1], d.val[2])} }) :
             d \in {DecodeUints(args, <<U32_MAX, U64_MAX>>)} })

handle_fee_adjusted_yield(args) ==
    Only({ IF d.tag # "Some" THEN Undecoded(d)
           ELSE Only({ Handled(EncodeResult(r), "fee_adjusted_yield", d.val, r) :
                         r \in {fee_adjusted_yield(d.val[1], d.val[2])} }) :
             d \in {DecodeUints(args, <<U128_MAX, U32_MAX>>)} })

handle_weighted_average(args) ==
    Only({ IF d.tag # "Some" THEN Undecoded(d)
           ELSE Only({ Handled(EncodeResult(r), "weighted_average", d.val, r) :
                         r \in {weighted_average(d.val[1], d.val[2])} }) :
             d \in {DecodeArrays(args)} })

handle_optimal_split(args) ==
    Only({ IF d.tag # "Some" THEN Undecoded(d)
           ELSE Only({ Handled(EncodeSplit(r), "optimal_split", d.val, r) :
                         r \in {optimal_split(d.val[1], d.val[2],
                                              d.val[3], d.val[4])} }) :
             d \in {DecodeUints(args,
                                <<U32_MAX, U32_MAX, U32_MAX, U32_MAX>>)} })

\* A variant of call that matches the selector before it checks the length
MathLibCallSelectorFirst(selector, args) ==
    CASE selector = SEL_COMPOUND -> handle_compound(args)
      [] selector = SEL_ANNUALIZE -> handle_annualize(args)
      [] selector = SEL_FEE_ADJUSTED -> handle_fee_adjusted_yield(args)
      [] selector = SEL_WEIGHTED_AVG -> handle_weighted_average(args)
      [] selector = SEL_OPTIMAL_SPLIT -> handle_optimal_split(args)
      [] OTHER -> Rejected(ML_ERR_UNKNOWN_SELECTOR)

\* math_lib_precompile::call on a payload
MathLibCall(selector, args) ==
    IF Len(selector) < 4 THEN Rejected(ML_ERR_DECODE_FAILED)
    ELSE CASE selector = SEL_COMPOUND -> handle_compound(args)
           [] selector = SEL_ANNUALIZE -> handle_annualize(args)
           [] selector = SEL_FEE_ADJUSTED -> handle_fee_adjusted_yield(args)
           [] selector = SEL_WEIGHTED_AVG -> handle_weighted_average(args)
           [] selector = SEL_OPTIMAL_SPLIT -> handle_optimal_split(args)
           [] OTHER -> Rejected(ML_ERR_UNKNOWN_SELECTOR)

(***************************************************************************)
(* precompile_set.rs                                                       *)
(***************************************************************************)
\* H160 addresses, as their 20 bytes
MATH_LIB_PRECOMPILE_ADDRESS ==
    <<0, 0, 0, 0, 0, 0, 0, 0, 0, 0, 0, 0, 0, 0, 0, 0, 0, 0, 16, 1>>
YIELD_OPTIMIZER_PRECOMPILE_ADDRESS ==
    <<0, 0, 0, 0, 0, 0, 0, 0, 0, 0, 0, 0, 0, 0, 0, 0, 0, 0, 16, 2>>

is_precompile(address) ==
    \/ address = MATH_LIB_PRECOMPILE_ADDRESS
    \/ address = YIELD_OPTIMIZER_PRECOMPILE_ADDRESS

(***************************************************************************)
(* The calls the model explores                                            *)
(***************************************************************************)
\* Projection periods 0..MaxPeriods are explored for every combination of
\* the other fields; the documented daily compounding for the corner cases.
MaxPeriods == 3
DailyPeriods == 365

\* 1_000_000_000 DOT, the documented largest principal
BillionDot == Mul(FromInt(1000000000), PRECISION)
ThousandDot == Mul(FromInt(1000), PRECISION)

Principals == {Zero, One, FromInt(10000), ThousandDot, BillionDot, U128_MAX}

\* <<hydradx, interlay>> pairs
ApyPairs ==
    { <<FromInt(1200), FromInt(900)>>, <<Zero, Zero>>,
      <<FromInt(10000), FromInt(10000)>>, <<FromInt(5000), FromInt(1000)>>,
      <<U32_MAX, FromInt(1000)>> }
FeePairs ==
    { <<FromInt(50), FromInt(100)>>, <<Zero, FromInt(10000)>>,
      <<FromInt(10001), Zero>>, <<Zero, FromInt(10001)>> }
RiskPairs ==
    { <<FromInt(1500), FromInt(2500)>>, <<FromInt(10000), Zero>>,
      <<FromInt(10000), FromInt(10000)>>, <<FromInt(10001), Zero>>,
      <<Zero, FromInt(10001)>> }

OptimizerInput(p, apy, fee, risk, n) ==
    [ principal |-> p,
      hydradx_apy_bps |-> apy[1], interlay_apy_bps |-> apy[2],
      hydradx_fee_bps |-> fee[1], interlay_fee_bps |-> fee[2],
      hydradx_risk_score |-> risk[1], interlay_risk_score |-> risk[2],
      projection_periods |-> n ]

\* The corners of the documented-valid range at daily compounding
DailyInputs ==
    { OptimizerInput(p, apy, <<FromInt(50), FromInt(100)>>,
                     <<FromInt(1500), FromInt(2500)>>, FromInt(DailyPeriods)) :
        p \in {ThousandDot, BillionDot},
        apy \in {<<FromInt(1200), FromInt(900)>>,
                 <<FromInt(10000), FromInt(10000)>>} }

OptimizerInputs ==
    { OptimizerInput(p, apy, fee, risk, FromInt(n)) :
        p \in Principals, apy \in ApyPairs, fee \in FeePairs,
        risk \in RiskPairs, n \in 0..MaxPeriods }
    \cup DailyInputs

\* Calldata for the input, as the caller encodes it
EncodeInput(in) ==
    [ selector |-> SEL_OPTIMIZE,
      words |-> << in.principal, in.hydradx_apy_bps, in.interlay_apy_bps,
                   in.hydradx_fee_bps, in.interlay_fee_bps,
                   in.hydradx_risk_score, in.interlay_risk_score,
                   in.projection_periods >> ]

\* The inputs sent through the precompile by two nodes at once
CallInputs ==
    { OptimizerInput(p, apy, fee, risk, FromInt(n)) :
        p \in {Zero, FromInt(10000), ThousandDot, U128_MAX},
        apy \in {<<FromInt(1200), FromInt(900)>>, <<U32_MAX, FromInt(1000)>>},
        fee \in {<<FromInt(50), FromInt(100)>>, <<FromInt(10001), Zero>>},
        risk \in {<<FromInt(1500), FromInt(2500)>>, <<Zero, FromInt(10001)>>},
        n \in {0, MaxPeriods - 1} }

WellFormed == EncodeInput(OptimizerInput(ThousandDot,
                  <<FromInt(1200), FromInt(900)>>, <<FromInt(50), FromInt(100)>>,
                  <<FromInt(1500), FromInt(2500)>>, FromInt(1)))

\* Payloads that are too short, carry another selector, too few or too many
\* words, or a word wider than its field
Malformed ==
    { [selector |-> << >>, words |-> << >>],
      [selector |-> <<111, 122, 139>>, words |-> << >>],
      [selector |-> <<0, 0, 0, 0>>, words |-> WellFormed.words],
      [selector |-> SEL_OPTIMIZE, words |-> << >>],
      [selector |-> SEL_OPTIMIZE, words |-> SubSeq(WellFormed.words, 1, 7)],
      [selector |-> SEL_OPTIMIZE, words |-> WellFormed.words \o <<One>>],
      [selector |-> SEL_OPTIMIZE,
       words |-> [WellFormed.words EXCEPT ![1] = Add(U128_MAX, One)]],
      [selector |-> SEL_OPTIMIZE,
       words |-> [WellFormed.words EXCEPT ![8] = Add(U32_MAX, One)]] }

Payloads == {EncodeInput(i) : i \in CallInputs} \cup Malformed

\* 10_000 DOT
TenThousandDot == Mul(FromInt(10000), PRECISION)

\* compound(principal, rate_bps, periods)
CompoundCalls ==
    { <<p, r, FromInt(n)>> :
        p \in {Zero, One, FromInt(10000), TenThousandDot, BillionDot, U128_MAX},
        r \in {Zero, One, FromInt(1000), FromInt(10000), U32_MAX},
        n \in 0..MaxPeriods }
    \cup { <<p, r, FromInt(DailyPeriods)>> :
             p \in {TenThousandDot, BillionDot},
             r \in {FromInt(1000), FromInt(10000)} }

\* Yields in basis points: none, the least, close pairs, typical ones,
\* 100%, u32::MAX
SplitYields ==
    { Zero, One, FromInt(100), FromInt(101), FromInt(500), FromInt(900),
      FromInt(1000), FromInt(1200), FromInt(2000), FromInt(10000), U32_MAX }

\* optimal_split(yield_a_bps, yield_b_bps, risk_a, risk_b)
SplitCalls ==
    { <<ya, yb, ra, rb>> :
        ya \in SplitYields, yb \in SplitYields,
        ra \in {Zero, FromInt(1500), FromInt(9999), FromInt(10000), FromInt(10001)},
        rb \in {Zero, FromInt(1500), FromInt(9999), FromInt(10000), FromInt(10001)} }

\* annualize(rate_bps, period_seconds): windows of no length, a second, a
\* day, a week, half a year, a year, a second more, two years, u64::MAX
AnnualizeCalls ==
    { <<r, s>> :
        r \in {Zero, One, FromInt(20), FromInt(400), FromInt(1000), U32_MAX},
        s \in {Zero, One, FromInt(86400), FromInt(604800), FromInt(15768000),
               SECONDS_PER_YEAR, FromInt(31536001), FromInt(63072000),
               U64_MAX} }

\* The largest gross yield whose product with 10_000 fits u128
LargestFeeable == Div(U128_MAX, BPS_DENOMINATOR)
HundredDot == Mul(Hundred, PRECISION)

\* fee_adjusted_yield(gross_yield, fee_bps)
FeeCalls ==
    { <<g, f>> :
        g \in {Zero, One, FromInt(9999), HundredDot, BillionDot,
               LargestFeeable, Add(LargestFeeable, One), U128_MAX},
        f \in {Zero, One, FromInt(50), FromInt(5000), FromInt(9999),
               FromInt(10000), FromInt(10001), U32_MAX} }

\* Slices of at most MaxLen elements
MaxLen == 2
Slices(S) == UNION { [1..k -> S] : k \in 0..MaxLen }

\* weighted_average(values, weights)
AverageCalls ==
    { <<v, w>> :
        v \in Slices({Zero, FromInt(900), FromInt(1200), U128_MAX}),
        w \in Slices({Zero, One, FromInt(40), FromInt(60), U128_MAX}) }

\* Calldata of a math_lib call with fixed-width arguments
EncodeCall(selector, args) == [selector |-> selector, words |-> args]

\* Calldata of weightedAverage(values, weights): the two offsets, then each
\* array as its length and its elements
EncodeArrays(values, weights) ==
    << FromInt(64), FromInt(64 + 32 * (1 + Len(values))) >>
    \o <<FromInt(Len(values))>> \o values
    \o <<FromInt(Len(weights))>> \o weights

\* Calls of the math_lib precompile that decode
MathLibWellFormed ==
    { EncodeCall(SEL_COMPOUND, <<p, r, n>>) :
        p \in {Zero, ThousandDot, U128_MAX},
        r \in {FromInt(1000), U32_MAX}, n \in {Zero, One, FromInt(2)} }
    \cup { EncodeCall(SEL_ANNUALIZE, <<r, s>>) :
             r \in {FromInt(20), U32_MAX},
             s \in {Zero, One, FromInt(604800), U64_MAX} }
    \cup { EncodeCall(SEL_FEE_ADJUSTED, <<g, f>>) :
             g \in {Zero, HundredDot, U128_MAX},
             f \in {Zero, FromInt(50), FromInt(10000), FromInt(10001)} }
    \cup { EncodeCall(SEL_WEIGHTED_AVG, EncodeArrays(v, w)) :
             v \in {<< >>, <<FromInt(1200)>>, <<FromInt(1200), FromInt(900)>>,
                    <<U128_MAX, U128_MAX>>},
             w \in {<< >>, <<FromInt(60), FromInt(40)>>, <<Zero, Zero>>,
                    <<One, One>>} }
    \cup { EncodeCall(SEL_OPTIMAL_SPLIT, <<ya, yb, ra, rb>>) :
             ya \in {Zero, FromInt(1200)}, yb \in {Zero, FromInt(900), U32_MAX},
             ra \in {FromInt(1500), FromInt(10000)},
             rb \in {FromInt(2500), FromInt(10001)} }

\* Payloads for the math_lib precompile that are too short, carry another
\* selector, too few or too many words, an offset or a length that leaves
\* the data, or a word wider than its field
MathLibMalformed ==
    { EncodeCall(<<26>>, << >>),
      EncodeCall(<<26, 43, 60>>, <<ThousandDot, FromInt(1000), One>>),
      EncodeCall(<<222, 173, 190, 239>>, <<FromInt(1000)>>),
      EncodeCall(<<222, 173, 190, 239>>, <<Add(U128_MAX, One)>>),
      EncodeCall(SEL_OPTIMIZE, WellFormed.words),
      EncodeCall(SEL_COMPOUND, << >>),
      EncodeCall(SEL_COMPOUND, <<ThousandDot, FromInt(1000)>>),
      EncodeCall(SEL_COMPOUND, <<ThousandDot, FromInt(1000), One, One>>),
      EncodeCall(SEL_COMPOUND, <<Add(U128_MAX, One), FromInt(1000), One>>),
      EncodeCall(SEL_COMPOUND, <<ThousandDot, Add(U32_MAX, One), One>>),
      EncodeCall(SEL_COMPOUND, <<ThousandDot, FromInt(1000), Add(U32_MAX, One)>>),
      EncodeCall(SEL_ANNUALIZE, <<FromInt(20)>>),
      EncodeCall(SEL_ANNUALIZE, <<Add(U32_MAX, One), FromInt(604800)>>),
      EncodeCall(SEL_ANNUALIZE, <<FromInt(20), Add(U64_MAX, One)>>),
      EncodeCall(SEL_FEE_ADJUSTED, <<HundredDot>>),
      EncodeCall(SEL_FEE_ADJUSTED, <<Add(U128_MAX, One), FromInt(50)>>),
      EncodeCall(SEL_FEE_ADJUSTED, <<HundredDot, Add(U32_MAX, One)>>),
      EncodeCall(SEL_WEIGHTED_AVG, << >>),
      EncodeCall(SEL_WEIGHTED_AVG, <<FromInt(64)>>),
      EncodeCall(SEL_WEIGHTED_AVG, <<FromInt(64), FromInt(96), Zero>>),
      EncodeCall(SEL_WEIGHTED_AVG,
                 <<FromInt(64), FromInt(128), FromInt(2), FromInt(1200),
                   One, One>>),
      EncodeCall(SEL_WEIGHTED_AVG,
                 <<Add(U32_MAX, One), FromInt(96), Zero, Zero>>),
      EncodeCall(SEL_WEIGHTED_AVG,
                 EncodeArrays(<<Add(U128_MAX, One)>>, <<One>>)),
      EncodeCall(SEL_WEIGHTED_AVG,
                 EncodeArrays(<<FromInt(1200)>>, <<Add(U128_MAX, One)>>)),
      EncodeCall(SEL_OPTIMAL_SPLIT,
                 <<FromInt(1200), FromInt(900), FromInt(1500)>>),
      EncodeCall(SEL_OPTIMAL_SPLIT,
                 <<FromInt(1200), FromInt(900), FromInt(1500),
                   Add(U32_MAX, One)>>) }

MathLibPayloads == MathLibWellFormed \cup MathLibMalformed

\* Addresses a contract may call: the two precompiles, their neighbours,
\* the zero address, and the unknown addresses of the tests
Addresses ==
    { MATH_LIB_PRECOMPILE_ADDRESS, YIELD_OPTIMIZER_PRECOMPILE_ADDRESS,
      [i \in 1..20 |-> IF i = 19 THEN 16 ELSE 0],
      [i \in 1..20 |-> IF i = 19 THEN 16 ELSE IF i = 20 THEN 3 ELSE 0],
      [i \in 1..20 |-> 0], [i \in 1..20 |-> 222], [i \in 1..20 |-> 171] }

\* execute(&address, &input) for every address and every payload of either
\* precompile
ExecuteCalls ==
    { [address |-> a, selector |-> p.selector, words |-> p.words] :
        a \in Addresses, p \in MathLibPayloads \cup Payloads }

\* The variants of MathError and of OptimizerError
MathErrors == {"Overflow", "Underflow", "DivisionByZero", "InvalidInput"}
OptimizerErrors == {InvalidInput} \cup {Math(e) : e \in MathErrors}

(***************************************************************************)
(* State                                                                   *)
(***************************************************************************)
\* Independent executions of the same call
Nodes == {1, 2}

VARIABLES
    payload,  \* the bytes every node's precompile is called with, if any
    input,    \* per node: the OptimizerInput optimize is called with
    pc,       \* per node: "call", "validate", the statement to run next,
              \*           "return", "done", "returned", "panic"
    local,    \* per node: the locals of optimize bound so far
    result,   \* per node: what optimize returned, once done
    output,   \* per node: the response of the precompile, once returned
    exact,    \* per node: no `as` narrowing has changed a value so far
    errlog,   \* per node: the MathErrors raised so far, in order
    trace,    \* per node: the statements run so far, in order
    mathcall  \* a call of one math_lib primitive: its name, arguments, result

vars ==
    <<payload, input, pc, local, result, output, exact, errlog, trace, mathcall>>

Pending == [tag |-> "Pending", val |-> << >>]

\* optimize called directly, not through the precompile
NoPayload == [selector |-> <<-1>>, words |-> << >>]
NoInput == OptimizerInput(None, <<None, None>>, <<None, None>>,
                          <<None, None>>, None)
NoOutput == << >>
\* No earlier call of the primitive to compare with
NoPrev == [args |-> << >>, ret |-> Pending]
NoMathCall == [fn |-> "none", args |-> << >>, ret |-> Pending, prev |-> NoPrev]

\* The call fn(args), not yet returned
MathCall(fn, args) ==
    [fn |-> fn, args |-> args, ret |-> Pending, prev |-> NoPrev]

Fresh ==
    /\ local = [n \in Nodes |-> NoLocals]
    /\ result = [n \in Nodes |-> Pending]
    /\ output = [n \in Nodes |-> NoOutput]
    /\ exact = [n \in Nodes |-> TRUE]
    /\ errlog = [n \in Nodes |-> << >>]
    /\ trace = [n \in Nodes |-> << >>]

\* optimize(&input)
Init ==
    /\ mathcall = NoMathCall
    /\ payload = NoPayload
    /\ \E i \in OptimizerInputs : input = [n \in Nodes |-> i]
    /\ pc = [n \in Nodes |-> "validate"]
    /\ Fresh

\* call(&payload) on every node
InitCall ==
    /\ mathcall = NoMathCall
    /\ payload \in Payloads
    /\ input = [n \in Nodes |-> NoInput]
    /\ pc = [n \in Nodes |-> "call"]
    /\ Fresh

\* call up to the call of optimize: the length check, the selector check,
\* the decoding
Call(n) ==
    /\ pc[n] = "call"
    /\ IF Len(payload.selector) < 4
       THEN /\ output' = [output EXCEPT ![n] = encode_error(ERR_DECODE_FAILED)]
            /\ pc' = [pc EXCEPT ![n] = "returned"]
            /\ UNCHANGED input
       ELSE IF payload.selector # SEL_OPTIMIZE
       THEN /\ output' = [output EXCEPT ![n] = encode_error(ERR_UNKNOWN_SELECTOR)]
            /\ pc' = [pc EXCEPT ![n] = "returned"]
            /\ UNCHANGED input
       ELSE \E d \in {decode_optimizer_input(payload.words)} :
              CASE d.tag = "None" ->
                     /\ output' = [output EXCEPT ![n] =
                                      encode_error(ERR_DECODE_FAILED)]
                     /\ pc' = [pc EXCEPT ![n] = "returned"]
                     /\ UNCHANGED input
                [] d.tag = "Panic" ->
                     /\ pc' = [pc EXCEPT ![n] = "panic"]
                     /\ UNCHANGED <<input, output>>
                [] d.tag = "Some" ->
                     /\ input' = [input EXCEPT ![n] = d.val]
                     /\ pc' = [pc EXCEPT ![n] = "validate"]
                     /\ UNCHANGED output
    /\ UNCHANGED <<payload, local, result, exact, errlog, trace, mathcall>>

\* The validation block: reject with the pipeline-level InvalidInput, or go on
Validate(n) ==
    /\ pc[n] = "validate"
    /\ IF Valid(input[n])
       THEN /\ pc' = [pc EXCEPT ![n] = Statements[1]]
            /\ UNCHANGED result
       ELSE /\ pc' = [pc EXCEPT ![n] = "done"]
            /\ result' = [result EXCEPT ![n] = Err(InvalidInput)]
    /\ UNCHANGED <<payload, input, local, output, exact, errlog, trace, mathcall>>

\* A variant of a statement that binds zero when its value is an error and
\* carries on (unwrap_or_default in place of `?`)
BindOrDefault(n) ==
    /\ pc[n] \in {Statements[i] : i \in 1..Len(Statements)}
    /\ \E s \in {pc[n]} : \E r \in {Compute(s, input[n], local[n])} :
           /\ trace' = [trace EXCEPT ![n] = Append(@, s)]
           /\ pc' = [pc EXCEPT ![n] = After(s)]
           /\ IF IsOk(r)
              THEN /\ \E v \in {Narrow(s, r.val)} :
                        /\ local' = [local EXCEPT ![n] = Bound(s, @, v)]
                        /\ exact' = [exact EXCEPT ![n] = @ /\ v = r.val]
                   /\ UNCHANGED errlog
              ELSE /\ errlog' = [errlog EXCEPT ![n] = Append(@, r.val)]
                   /\ local' = [local EXCEPT ![n] =
                                   Bound(s, @, IF s = "split" THEN <<Zero, Zero>>
                                               ELSE Zero)]
                   /\ UNCHANGED exact
           /\ UNCHANGED result
    /\ UNCHANGED <<payload, input, output, mathcall>>

\* One `let` statement: bind its value, or return its error wrapped by
\* From<MathError> (the `?` operator)
Bind(n) ==
    /\ pc[n] \in {Statements[i] : i \in 1..Len(Statements)}
    /\ \E s \in {pc[n]} : \E r \in {Compute(s, input[n], local[n])} :
           /\ trace' = [trace EXCEPT ![n] = Append(@, s)]
           /\ IF IsOk(r)
              THEN /\ \E v \in {Narrow(s, r.val)} :
                        /\ local' = [local EXCEPT ![n] = Bound(s, @, v)]
                        /\ exact' = [exact EXCEPT ![n] = @ /\ v = r.val]
                   /\ pc' = [pc EXCEPT ![n] = After(s)]
                   /\ UNCHANGED <<result, errlog>>
              ELSE /\ errlog' = [errlog EXCEPT ![n] = Append(@, r.val)]
                   /\ result' = [result EXCEPT ![n] = Err(Math(r.val))]
                   /\ pc' = [pc EXCEPT ![n] = "done"]
                   /\ UNCHANGED <<local, exact>>
    /\ UNCHANGED <<payload, input, output, mathcall>>

\* A variant that builds the recommendation from one scratch area all
\* executions share (that of node 1)
ReturnFromSharedScratch(n) ==
    /\ pc[n] = "return"
    /\ result' = [result EXCEPT ![n] = Ok(Recommendation(local[1]))]
    /\ pc' = [pc EXCEPT ![n] = "done"]
    /\ UNCHANGED <<payload, input, local, output, exact, errlog, trace, mathcall>>

\* Ok(YieldRecommendation { ... })
Return(n) ==
    /\ pc[n] = "return"
    /\ result' = [result EXCEPT ![n] = Ok(Recommendation(local[n]))]
    /\ pc' = [pc EXCEPT ![n] = "done"]
    /\ UNCHANGED <<payload, input, local, output, exact, errlog, trace, mathcall>>

\* call after optimize has returned: encode the recommendation or the error
Respond(n) ==
    /\ pc[n] = "done"
    /\ payload # NoPayload
    /\ output' = [output EXCEPT ![n] = Response(result[n])]
    /\ pc' = [pc EXCEPT ![n] = "returned"]
    /\ UNCHANGED <<payload, input, local, result, exact, errlog, trace, mathcall>>

\* One execution of optimize
Next == \E n \in {1} : Validate(n) \/ Bind(n) \/ Return(n)

Spec == Init /\ [][Next]_vars

\* The precompile called with the same bytes on every node, the nodes
\* running in any interleaving
NextCall ==
    \E n \in Nodes : Call(n) \/ Validate(n) \/ Bind(n) \/ Return(n) \/ Respond(n)

SpecCall == InitCall /\ [][NextCall]_vars

(***************************************************************************)
(* The primitives of math_lib called on their own                          *)
(***************************************************************************)
InitMath ==
    /\ \/ \E a \in CompoundCalls : mathcall = MathCall("compound", a)
       \/ \E a \in AnnualizeCalls : mathcall = MathCall("annualize", a)
       \/ \E a \in FeeCalls : mathcall = MathCall("fee_adjusted_yield", a)
       \/ \E a \in AverageCalls : mathcall = MathCall("weighted_average", a)
       \/ \E a \in SplitCalls : mathcall = MathCall("optimal_split", a)
    /\ payload = NoPayload
    /\ input = [n \in Nodes |-> NoInput]
    /\ pc = [n \in Nodes |-> "idle"]
    /\ Fresh

Returns(r) ==
    /\ mathcall.ret = Pending
    /\ mathcall' = [mathcall EXCEPT !.ret = r]
    /\ UNCHANGED <<payload, input, pc, local, result, output, exact, errlog, trace>>

CallCompound ==
    /\ mathcall.fn = "compound"
    /\ Returns(compound(mathcall.args[1], mathcall.args[2], mathcall.args[3]))

\* A second call of compound once the first has returned, with more
\* periods or a higher rate and the other arguments as before
CallCompoundAgain ==
    /\ mathcall.fn = "compound"
    /\ mathcall.ret # Pending
    /\ mathcall.prev = NoPrev
    /\ \E a \in CompoundCalls :
         /\ a[1] = mathcall.args[1]
         /\ \/ a[2] = mathcall.args[2] /\ Gt(a[3], mathcall.args[3])
            \/ a[3] = mathcall.args[3] /\ Gt(a[2], mathcall.args[2])
         /\ mathcall' = [fn |-> "compound", args |-> a, ret |-> Pending,
                         prev |-> [args |-> mathcall.args,
                                   ret |-> mathcall.ret]]
    /\ UNCHANGED <<payload, input, pc, local, result, output, exact, errlog, trace>>

CallAnnualize ==
    /\ mathcall.fn = "annualize"
    /\ Returns(annualize(mathcall.args[1], mathcall.args[2]))

CallFeeAdjustedYield ==
    /\ mathcall.fn = "fee_adjusted_yield"
    /\ Returns(fee_adjusted_yield(mathcall.args[1], mathcall.args[2]))

CallWeightedAverage ==
    /\ mathcall.fn = "weighted_average"
    /\ Returns(weighted_average(mathcall.args[1], mathcall.args[2]))

CallOptimalSplit ==
    /\ mathcall.fn = "optimal_split"
    /\ Returns(optimal_split(mathcall.args[1], mathcall.args[2],
                             mathcall.args[3], mathcall.args[4]))

NextMath ==
    \/ CallCompound
    \/ CallCompoundAgain
    \/ CallAnnualize
    \/ CallFeeAdjustedYield
    \/ CallWeightedAverage
    \/ CallOptimalSplit

SpecMath == InitMath /\ [][NextMath]_vars

(***************************************************************************)
(* Either a primitive called on its own or one execution of optimize       *)
(***************************************************************************)
InitAll == Init \/ InitMath

NextAll == Next \/ NextMath

SpecAll == InitAll /\ [][NextAll]_vars

(***************************************************************************)
(* PolkaPulsePrecompileSet::execute, and the error-code tables on their    *)
(* own                                                                     *)
(***************************************************************************)
\* The code an error-code function returned
Code(c) == [tag |-> "Code", val |-> FromInt(c)]

InitExecute ==
    /\ \/ /\ payload \in ExecuteCalls
          /\ mathcall = NoMathCall
          /\ pc = [n \in Nodes |-> IF n = 1 THEN "execute" ELSE "idle"]
       \/ /\ payload = NoPayload
          /\ \/ \E e \in MathErrors :
                  mathcall = MathCall("math_error_code", <<e>>)
             \/ \E e \in OptimizerErrors :
                  mathcall = MathCall("optimizer_error_code", <<e>>)
          /\ pc = [n \in Nodes |-> "idle"]
    /\ input = [n \in Nodes |-> NoInput]
    /\ Fresh

\* execute up to the call of a precompile: route by address, or return None
Execute(n) ==
    /\ pc[n] = "execute"
    /\ IF payload.address = MATH_LIB_PRECOMPILE_ADDRESS
       THEN /\ pc' = [pc EXCEPT ![n] = "math_call"]
            /\ UNCHANGED output
       ELSE IF payload.address = YIELD_OPTIMIZER_PRECOMPILE_ADDRESS
       THEN /\ pc' = [pc EXCEPT ![n] = "call"]
            /\ UNCHANGED output
       ELSE /\ output' = [output EXCEPT ![n] = None]
            /\ pc' = [pc EXCEPT ![n] = "returned"]
    /\ UNCHANGED <<payload, input, local, result, exact, errlog, trace, mathcall>>

\* math_lib_precompile::call: the length check, the selector check, the
\* handler with its decoding, its math_lib call and its response
CallMathLib(n) ==
    /\ pc[n] = "math_call"
    /\ \E h \in {MathLibCall(payload.selector, payload.words)} :
         /\ pc' = [pc EXCEPT ![n] = IF h.tag = "Panic" THEN "panic"
                                    ELSE "returned"]
         /\ output' = [output EXCEPT ![n] = h.out]
         /\ mathcall' = h.call
    /\ UNCHANGED <<payload, input, local, result, exact, errlog, trace>>

CallMathErrorCode ==
    /\ mathcall.fn = "math_error_code"
    /\ Returns(Code(math_error_code(mathcall.args[1])))

CallOptimizerErrorCode ==
    /\ mathcall.fn = "optimizer_error_code"
    /\ Returns(Code(optimizer_error_code(mathcall.args[1])))

NextExecute ==
    \/ \E n \in {1} :
         \/ Execute(n)
         \/ CallMathLib(n)
         \/ Call(n)
         \/ Validate(n)
         \/ Bind(n)
         \/ Return(n)
         \/ Respond(n)
    \/ CallMathErrorCode
    \/ CallOptimizerErrorCode

SpecExecute == InitExecute /\ [][NextExecute]_vars

(***************************************************************************)
(* Properties                                                              *)
(***************************************************************************)
Returned(n) == pc[n] = "done"
Recommended(n) == IsOk(result[n])

\* C1: in every recommendation optimize returns, both allocation
\* percentages lie in 0..100 and they sum to exactly 100.
AllocationsSumTo100 ==
    \A n \in Nodes :
        Recommended(n) =>
            /\ Leq(result[n].val.hydradx_allocation_pct, Hundred)
            /\ Leq(result[n].val.interlay_allocation_pct, Hundred)
            /\ Add(result[n].val.hydradx_allocation_pct,
                   result[n].val.interlay_allocation_pct) = Hundred

\* A recommendation that splits unevenly between both destinations
UnevenSplitRecommended ==
    \E n \in Nodes :
        /\ Recommended(n)
        /\ Gt(result[n].val.interlay_allocation_pct, Zero)
        /\ Gt(result[n].val.hydradx_allocation_pct,
              result[n].val.interlay_allocation_pct)

\* optimal_split has been called with 32-bit yields and risk scores of at
\* most 10000 and has returned
SplitCallInRange ==
    /\ mathcall.fn = "optimal_split"
    /\ mathcall.ret # Pending
    /\ Leq(mathcall.args[1], U32_MAX) /\ Leq(mathcall.args[2], U32_MAX)
    /\ Leq(mathcall.args[3], MAX_RISK_SCORE)
    /\ Leq(mathcall.args[4], MAX_RISK_SCORE)

\* C2: optimal_split on 32-bit yields and risk scores of at most 10000
\* always succeeds, and the pair it returns sums to exactly 100.
SplitSucceedsAndSumsTo100 ==
    SplitCallInRange =>
        /\ IsOk(mathcall.ret)
        /\ Add(mathcall.ret.val[1], mathcall.ret.val[2]) = Hundred

\* Such a call at the largest yield and the largest valid risk score
SplitAtExtremesReturned ==
    /\ SplitCallInRange
    /\ mathcall.args[1] = U32_MAX
    /\ mathcall.args[4] = MAX_RISK_SCORE
    /\ IsOk(mathcall.ret)
    /\ mathcall.ret.val = <<Hundred, Zero>>

\* The inputs the validation is documented to reject
Rejectable(in) ==
    \/ IsZero(in.principal)
    \/ IsZero(in.projection_periods)
    \/ Gt(in.hydradx_fee_bps, FromInt(10000))
    \/ Gt(in.interlay_fee_bps, FromInt(10000))

\* C3: when principal is 0, projection_periods is 0 or a fee exceeds 10000,
\* optimize runs no statement and raises no MathError, and what it returns
\* is the pipeline-level InvalidInput.
InvalidInputBeforeArithmetic ==
    \A n \in Nodes :
        Rejectable(input[n]) =>
            /\ trace[n] = << >>
            /\ errlog[n] = << >>
            /\ pc[n] \in {"validate", "done"}
            /\ Returned(n) => result[n] = Err(InvalidInput)

\* A rejected call whose other fields would overflow compound
OverflowProneInputRejected ==
    \E n \in Nodes :
        /\ Returned(n)
        /\ input[n].principal = U128_MAX
        /\ input[n].hydradx_apy_bps = U32_MAX
        /\ ~IsZero(input[n].projection_periods)
        /\ Gt(input[n].interlay_fee_bps, FromInt(10000))
        /\ result[n] = Err(InvalidInput)

\* C4: in every recommendation use_hydradx is true exactly when
\* hydradx_allocation_pct > 0 and use_interlay exactly when
\* interlay_allocation_pct > 0.
FlagsMatchAllocations ==
    \A n \in Nodes :
        Recommended(n) =>
            /\ result[n].val.use_hydradx
                 <=> Gt(result[n].val.hydradx_allocation_pct, Zero)
            /\ result[n].val.use_interlay
                 <=> Gt(result[n].val.interlay_allocation_pct, Zero)

\* A recommendation that puts everything on one side
OneSidedRecommended ==
    \E n \in Nodes :
        /\ Recommended(n)
        /\ ~result[n].val.use_hydradx
        /\ result[n].val.use_interlay
        /\ result[n].val.interlay_allocation_pct = Hundred

DocumentedValid(in) ==
    /\ Gt(in.principal, Zero) /\ Leq(in.principal, BillionDot)
    /\ Leq(in.hydradx_apy_bps, FromInt(10000))
    /\ Leq(in.interlay_apy_bps, FromInt(10000))
    /\ Leq(in.hydradx_fee_bps, FromInt(10000))
    /\ Leq(in.interlay_fee_bps, FromInt(10000))
    /\ Leq(in.hydradx_risk_score, FromInt(10000))
    /\ Leq(in.interlay_risk_score, FromInt(10000))
    /\ Gt(in.projection_periods, Zero)
    /\ Leq(in.projection_periods, FromInt(365))

\* The locals declared u32, and those declared u64; the others are u128
Locals32 == {"hydradx_net_apy_bps", "interlay_net_apy_bps", "blended_apy_bps"}
Locals64 == {"hydradx_pct", "interlay_pct"}

\* Every local bound so far holds a value of its declared width
WithinWidths(l) ==
    \A s \in DOMAIN l :
        IsSome(l[s]) =>
            Leq(l[s], IF s \in Locals32 THEN U32_MAX
                      ELSE IF s \in Locals64 THEN U64_MAX ELSE U128_MAX)

\* What optimize returned is the error its last statement raised
ExplicitError(n) ==
    /\ IsErr(result[n])
    /\ errlog[n] # << >>
    /\ result[n].val = Math(errlog[n][Len(errlog[n])])

\* C6: on every input of the documented-valid range, optimize (and with it
\* the calls of compound it makes on the principal) raises no unchecked
\* overflow: no value is wrapped or truncated at any step, and the call
\* returns a recommendation or an explicit error.
NoUncheckedOverflowWhenDocumented ==
    \A n \in Nodes :
        DocumentedValid(input[n]) =>
            /\ exact[n]
            /\ WithinWidths(local[n])
            /\ Returned(n) => (Recommended(n) \/ ExplicitError(n))

\* The largest documented principal at the largest rates, compounded daily,
\* has been recommended on
DocumentedCornerRecommended ==
    \E n \in Nodes :
        /\ Recommended(n)
        /\ input[n].principal = BillionDot
        /\ input[n].hydradx_apy_bps = FromInt(10000)
        /\ input[n].projection_periods = FromInt(DailyPeriods)
        /\ Gt(result[n].val.expected_yield_dot, BillionDot)

\* C7: in optimize no step silently overflows, whatever the field values:
\* when optimize returns a recommendation, every intermediate value,
\* the narrowed net rates and blended APY included, is the exact result of
\* its formula.
NoSilentTruncation ==
    \A n \in Nodes : Recommended(n) => exact[n]

\* C8: the first error a statement of optimize raises is what optimize
\* returns, as Math of that error; no later statement runs, no local is
\* bound for the failing statement, and no recommendation is returned.
FirstErrorReturned ==
    \A n \in Nodes :
        /\ Recommended(n) => errlog[n] = << >>
        /\ errlog[n] # << >> =>
              /\ Len(errlog[n]) = 1
              /\ Returned(n)
              /\ result[n] = Err(Math(errlog[n][1]))
              /\ \A i \in 1..Len(Statements) :
                    i >= Len(trace[n]) =>
                        \A s \in DOMAIN local[n] :
                            (s = Statements[i]
                             \/ (Statements[i] = "split" /\ s \in Locals64))
                                => IsNone(local[n][s])

\* The split has failed after eight statements succeeded
SplitErrorReturned ==
    \E n \in Nodes :
        /\ Returned(n)
        /\ Len(trace[n]) = 9
        /\ errlog[n] = <<"InvalidInput">>
        /\ result[n] = Err(Math("InvalidInput"))

RiskOutOfRange(in) ==
    \/ Gt(in.hydradx_risk_score, FromInt(10000))
    \/ Gt(in.interlay_risk_score, FromInt(10000))

\* C9 as stated: whenever a risk score exceeds 10000, optimize returns an
\* InvalidInput error (the pipeline's or the wrapped MathError's).
RiskAlwaysInvalidInput ==
    \A n \in Nodes :
        (RiskOutOfRange(input[n]) /\ Returned(n)) =>
            result[n] \in {Err(InvalidInput), Err(Math("InvalidInput"))}

\* C9, amended: whenever a risk score exceeds 10000, optimize never returns
\* a recommendation and never gets past the split; it returns an
\* InvalidInput error (the pipeline's or the wrapped MathError's), unless a
\* statement before the split has failed, in which case it returns that
\* statement's Overflow.
RiskNeverRecommended ==
    \A n \in Nodes :
        RiskOutOfRange(input[n]) =>
            /\ ~Recommended(n)
            /\ Len(trace[n]) <= StatementIndex("split")
            /\ Returned(n) =>
                  \/ result[n] \in {Err(InvalidInput), Err(Math("InvalidInput"))}
                  \/ /\ result[n] = Err(Math("Overflow"))
                     /\ Len(trace[n]) < StatementIndex("split")

\* A risk score of 10001 has been rejected by the split itself
RiskRejectedBySplit ==
    \E n \in Nodes :
        /\ RiskOutOfRange(input[n])
        /\ Returned(n)
        /\ Len(trace[n]) = StatementIndex("split")
        /\ result[n] = Err(Math("InvalidInput"))

\* One step of the reference: floor(amount * (10000 n + r) / (10000 n)), or
\* None once a product has exceeded 2^128 - 1
ReferenceStep(amount, r, n) ==
    IF IsNone(amount) THEN None
    ELSE IF Gt(Mul(amount, Add(Mul(FromInt(10000), n), r)), U128_MAX) THEN None
    ELSE Div(Mul(amount, Add(Mul(FromInt(10000), n), r)), Mul(FromInt(10000), n))

\* k steps of the reference
RECURSIVE ReferenceSteps(_, _, _, _)
ReferenceSteps(amount, r, n, k) ==
    IF IsNone(amount) \/ k = 0 THEN amount
    ELSE IF k = 1 THEN ReferenceStep(amount, r, n)
    ELSE ReferenceSteps(ReferenceSteps(amount, r, n, k \div 2), r, n,
                        k - k \div 2)

\* The reference value of compound(p, r, n), None where a step overflows
Reference(p, r, n) ==
    IF IsZero(p) THEN Zero
    ELSE IF IsZero(r) \/ IsZero(n) THEN p
    ELSE ReferenceSteps(p, r, n, ToInt(n))

\* C10: compound agrees with its reference wherever no step overflows:
\* compound(0, r, n) = 0, compound(p, 0, n) = p, compound(p, r, 0) = p, and
\* otherwise n applications of amount := floor(amount * (10000 n + r) /
\* (10000 n)) starting from p.
CompoundAgreesWithReference ==
    (mathcall.fn = "compound" /\ mathcall.ret # Pending) =>
        /\ IsZero(mathcall.args[1]) => mathcall.ret = Ok(Zero)
        /\ (IsZero(mathcall.args[2]) \/ IsZero(mathcall.args[3]))
               => mathcall.ret = Ok(mathcall.args[1])
        /\ IsSome(Reference(mathcall.args[1], mathcall.args[2], mathcall.args[3]))
               => mathcall.ret = Ok(Reference(mathcall.args[1], mathcall.args[2],
                                              mathcall.args[3]))
        /\ IsOk(mathcall.ret)
               => IsSome(Reference(mathcall.args[1], mathcall.args[2],
                                   mathcall.args[3]))

\* compound(10000e18, 1000, 1) has returned 11000e18
TenPercentOnTenThousandDot ==
    /\ mathcall.fn = "compound"
    /\ mathcall.args = <<TenThousandDot, FromInt(1000), One>>
    /\ mathcall.ret = Ok(Mul(FromInt(11000), PRECISION))

\* compound has been called twice on the same positive principal, the
\* second time with more periods or a higher rate, and both calls succeeded
ComparedCompound ==
    /\ mathcall.fn = "compound"
    /\ mathcall.prev # NoPrev
    /\ IsOk(mathcall.prev.ret)
    /\ IsOk(mathcall.ret)
    /\ ~IsZero(mathcall.args[1])

\* C11: compound is strictly monotonic: on a positive principal and at a
\* positive rate, more periods (0 < n1 < n2) give a strictly larger result,
\* and over a positive number of periods a higher rate (0 < r1 < r2) gives a
\* strictly larger result, all calls succeeding.
CompoundStrictlyMonotonic ==
    ComparedCompound =>
        /\ ( /\ mathcall.prev.args[2] = mathcall.args[2]
             /\ ~IsZero(mathcall.args[2])
             /\ ~IsZero(mathcall.prev.args[3])
             /\ Lt(mathcall.prev.args[3], mathcall.args[3]) )
               => Lt(mathcall.prev.ret.val, mathcall.ret.val)
        /\ ( /\ mathcall.prev.args[3] = mathcall.args[3]
             /\ ~IsZero(mathcall.args[3])
             /\ ~IsZero(mathcall.prev.args[2])
             /\ Lt(mathcall.prev.args[2], mathcall.args[2]) )
               => Lt(mathcall.prev.ret.val, mathcall.ret.val)

\* annualize has been called and has returned
AnnualizeReturned ==
    /\ mathcall.fn = "annualize"
    /\ mathcall.ret # Pending

\* rate_bps * 31536000, in unbounded arithmetic
AnnualProduct == Mul(mathcall.args[1], FromInt(31536000))

FeeCallReturned ==
    /\ mathcall.fn = "fee_adjusted_yield"
    /\ mathcall.ret # Pending
    /\ Leq(mathcall.args[1], U128_MAX)
    /\ Leq(mathcall.args[2], U32_MAX)

\* C14 as stated: for every 128-bit gross yield g, fee_adjusted_yield(g,
\* 10000) returns Ok(0) and fee_adjusted_yield(g, 0) returns Ok(g).
FullFeeLeavesNothing ==
    FeeCallReturned =>
        /\ mathcall.args[2] = FromInt(10000) => mathcall.ret = Ok(Zero)
        /\ IsZero(mathcall.args[2]) => mathcall.ret = Ok(mathcall.args[1])

\* C14 as amended: fee_adjusted_yield(g, 0) returns Ok(g) for every 128-bit
\* g; fee_adjusted_yield(g, 10000) returns Ok(0) for every g with
\* g * 10000 <= 2^128 - 1 and fails with Overflow for every larger g.
FullFeeLeavesNothingWhereProductFits ==
    FeeCallReturned =>
        /\ mathcall.args[2] = FromInt(10000) =>
               IF Leq(Mul(mathcall.args[1], FromInt(10000)), U128_MAX)
               THEN mathcall.ret = Ok(Zero)
               ELSE mathcall.ret = Err("Overflow")
        /\ IsZero(mathcall.args[2]) => mathcall.ret = Ok(mathcall.args[1])

\* fee_adjusted_yield(9999, 10000) has returned 0
FullFeeOnSmallYield ==
    /\ FeeCallReturned
    /\ mathcall.args = <<FromInt(9999), FromInt(10000)>>
    /\ mathcall.ret = Ok(Zero)

AverageReturned ==
    /\ mathcall.fn = "weighted_average"
    /\ mathcall.ret # Pending

\* Both slices have the same, non-zero length
WellFormedSlices ==
    /\ Len(mathcall.args[1]) > 0
    /\ Len(mathcall.args[1]) = Len(mathcall.args[2])

\* The sum of the first k weights, in unbounded arithmetic
RECURSIVE WeightSum(_, _)
WeightSum(weights, k) ==
    IF k = 0 THEN Zero ELSE Add(WeightSum(weights, k - 1), weights[k])

\* The sum of the first k products value_i * weight_i, in unbounded
\* arithmetic
RECURSIVE ProductSum(_, _, _)
ProductSum(values, weights, k) ==
    IF k = 0 THEN Zero
    ELSE Add(ProductSum(values, weights, k - 1), Mul(values[k], weights[k]))

AverageExceedsWidth ==
    \E k \in 1..Len(mathcall.args[1]) :
        \/ Gt(Mul(mathcall.args[1][k], mathcall.args[2][k]), U128_MAX)
        \/ Gt(ProductSum(mathcall.args[1], mathcall.args[2], k), U128_MAX)
        \/ Gt(WeightSum(mathcall.args[2], k), U128_MAX)

\* C17: on slices of equal non-zero length whose weights do not sum to zero,
\* weighted_average fails with Overflow whenever a product or a running sum
\* exceeds 2^128 - 1, and otherwise returns floor(sum(value_i * weight_i) /
\* sum(weight_i)): the q with q * W <= S < (q + 1) * W, no rounding.
AverageIsFlooredQuotient ==
    ( /\ AverageReturned
      /\ WellFormedSlices
      /\ ~IsZero(WeightSum(mathcall.args[2], Len(mathcall.args[2]))) ) =>
        IF AverageExceedsWidth
        THEN mathcall.ret = Err("Overflow")
        ELSE /\ IsOk(mathcall.ret)
             /\ Leq(Mul(mathcall.ret.val,
                        WeightSum(mathcall.args[2], Len(mathcall.args[2]))),
                    ProductSum(mathcall.args[1], mathcall.args[2],
                               Len(mathcall.args[1])))
             /\ Lt(ProductSum(mathcall.args[1], mathcall.args[2],
                              Len(mathcall.args[1])),
                   Mul(Add(mathcall.ret.val, One),
                       WeightSum(mathcall.args[2], Len(mathcall.args[2]))))

\* weighted_average([900, 1200], [1, 40]) has returned 1192, the floor of
\* 48900 / 41 = 1192.68...
UnevenAverageTruncated ==
    /\ AverageReturned
    /\ mathcall.args = << <<FromInt(900), FromInt(1200)>>,
                          <<One, FromInt(40)>> >>
    /\ mathcall.ret = Ok(FromInt(1192))

\* Both risk scores are valid and both risk-adjusted yields
\* floor(yield * (10000 - risk) / 10000) are zero, that is,
\* yield * (10000 - risk) < 10000 on either side
BothAdjustedZero(yield_a, yield_b, risk_a, risk_b) ==
    /\ Leq(risk_a, FromInt(10000))
    /\ Leq(risk_b, FromInt(10000))
    /\ Lt(Mul(yield_a, Sub(FromInt(10000), risk_a)), FromInt(10000))
    /\ Lt(Mul(yield_b, Sub(FromInt(10000), risk_b)), FromInt(10000))

\* optimal_split has been called on its own with both risk-adjusted yields
\* zero and has returned
ZeroSplitReturned ==
    /\ mathcall.fn = "optimal_split"
    /\ mathcall.ret # Pending
    /\ BothAdjustedZero(mathcall.args[1], mathcall.args[2],
                        mathcall.args[3], mathcall.args[4])

\* optimize on node n has run its call of optimal_split, and both
\* risk-adjusted yields were zero there
ZeroSplitRan(n) ==
    /\ \E i \in 1..Len(trace[n]) : trace[n][i] = "split"
    /\ BothAdjustedZero(local[n].hydradx_net_apy_bps,
                        local[n].interlay_net_apy_bps,
                        input[n].hydradx_risk_score,
                        input[n].interlay_risk_score)

\* The recommendation optimize returned on node n is the 50/50 one
FiftyFiftyRecommended(n) ==
    /\ Recommended(n)
    /\ result[n].val.hydradx_allocation_pct = FromInt(50)
    /\ result[n].val.interlay_allocation_pct = FromInt(50)

\* C18 as stated: optimal_split returns exactly (50, 50) whenever both
\* risk-adjusted yields are zero, and optimize then returns a 50/50
\* recommendation, a success and not an error.
FallbackThenSuccess ==
    /\ ZeroSplitReturned => mathcall.ret = Ok(<<FromInt(50), FromInt(50)>>)
    /\ \A n \in Nodes :
          (ZeroSplitRan(n) /\ Returned(n)) => FiftyFiftyRecommended(n)

\* C18 as amended: optimal_split returns exactly (50, 50) whenever both
\* risk-adjusted yields are zero; optimize then holds 50 and 50 as its two
\* percentages, and what it returns is either the 50/50 recommendation or
\* the error Math(Overflow) of a later checked operation; with both APYs
\* zero and principal * 50 <= 2^128 - 1 it is the recommendation.
FallbackThenSuccessUnlessOverflow ==
    /\ ZeroSplitReturned => mathcall.ret = Ok(<<FromInt(50), FromInt(50)>>)
    /\ \A n \in Nodes :
          ZeroSplitRan(n) =>
              /\ local[n].hydradx_pct = FromInt(50)
              /\ local[n].interlay_pct = FromInt(50)
              /\ Returned(n) =>
                     \/ FiftyFiftyRecommended(n)
                     \/ result[n] = Err(Math("Overflow"))
              /\ ( /\ Returned(n)
                   /\ IsZero(input[n].hydradx_apy_bps)
                   /\ IsZero(input[n].interlay_apy_bps)
                   /\ Leq(Mul(input[n].principal, FromInt(50)), U128_MAX) )
                     => FiftyFiftyRecommended(n)

\* optimize has returned the 50/50 recommendation for positive APYs whose
\* risk scores are both 10000
MaxRiskBothSidesRecommended ==
    \E n \in Nodes :
        /\ ZeroSplitRan(n)
        /\ FiftyFiftyRecommended(n)
        /\ ~IsZero(local[n].hydradx_net_apy_bps)
        /\ ~IsZero(local[n].interlay_net_apy_bps)
        /\ input[n].hydradx_risk_score = FromInt(10000)
        /\ input[n].interlay_risk_score = FromInt(10000)

\* optimal_split has been called on its own with valid risk scores and has
\* returned
ValidSplitReturned ==
    /\ mathcall.fn = "optimal_split"
    /\ mathcall.ret # Pending
    /\ Leq(mathcall.args[3], FromInt(10000))
    /\ Leq(mathcall.args[4], FromInt(10000))

\* floor(yield * (10000 - risk) / 10000), in unbounded arithmetic
AdjustedOf(yield, risk) ==
    Div(Mul(yield, Sub(FromInt(10000), risk)), FromInt(10000))

AdjustedA == AdjustedOf(mathcall.args[1], mathcall.args[3])
AdjustedB == AdjustedOf(mathcall.args[2], mathcall.args[4])

\* C19: when the risk-adjusted total is not zero, optimal_split returns
\* pct_a = floor(adj_a * 100 / (adj_a + adj_b)), the q with q * total <=
\* adj_a * 100 < (q + 1) * total, and pct_b = 100 - pct_a; so
\* optimal_split(2000, 1000, 0, 0) = (66, 34), and a side whose risk score
\* is 10000 gets 0 while the other, its adjusted yield positive, gets 100:
\* optimal_split(2000, 500, 10000, 0) = (0, 100).
SplitIsFlooredShare ==
    (ValidSplitReturned /\ ~IsZero(Add(AdjustedA, AdjustedB))) =>
        /\ IsOk(mathcall.ret)
        /\ Leq(Mul(mathcall.ret.val[1], Add(AdjustedA, AdjustedB)),
               Mul(AdjustedA, Hundred))
        /\ Lt(Mul(AdjustedA, Hundred),
              Mul(Add(mathcall.ret.val[1], One), Add(AdjustedA, AdjustedB)))
        /\ Leq(mathcall.ret.val[1], Hundred)
        /\ mathcall.ret.val[2] = Sub(Hundred, mathcall.ret.val[1])
        /\ mathcall.args = <<FromInt(2000), FromInt(1000), Zero, Zero>>
               => mathcall.ret = Ok(<<FromInt(66), FromInt(34)>>)
        /\ mathcall.args = <<FromInt(2000), FromInt(500), FromInt(10000), Zero>>
               => mathcall.ret = Ok(<<Zero, Hundred>>)
        /\ mathcall.args[3] = FromInt(10000)
               => mathcall.ret = Ok(<<Zero, Hundred>>)
        /\ mathcall.args[4] = FromInt(10000)
               => mathcall.ret = Ok(<<Hundred, Zero>>)

\* optimal_split(2000, 1000, 0, 0) has returned (66, 34)
TwoToOneSplitReturned ==
    /\ ValidSplitReturned
    /\ mathcall.args = <<FromInt(2000), FromInt(1000), Zero, Zero>>
    /\ mathcall.ret = Ok(<<FromInt(66), FromInt(34)>>)

\* optimal_split has returned a pair for equal risk scores below 10000
EqualRiskSplitReturned ==
    /\ ValidSplitReturned
    /\ IsOk(mathcall.ret)
    /\ mathcall.args[3] = mathcall.args[4]
    /\ Lt(mathcall.args[3], FromInt(10000))

SelectorsAt(address) ==
    IF address = MATH_LIB_PRECOMPILE_ADDRESS
    THEN {SEL_COMPOUND, SEL_ANNUALIZE, SEL_FEE_ADJUSTED, SEL_WEIGHTED_AVG,
          SEL_OPTIMAL_SPLIT}
    ELSE IF address = YIELD_OPTIMIZER_PRECOMPILE_ADDRESS THEN {SEL_OPTIMIZE}
    ELSE {}

\* Neither optimize nor a math_lib primitive has been entered on node n
NoCoreInvoked(n) ==
    /\ mathcall = NoMathCall
    /\ input[n] = NoInput
    /\ result[n] = Pending
    /\ trace[n] = << >>

\* execute was called on node n with a precompile's address
PrecompileCalled(n) ==
    /\ payload # NoPayload
    /\ pc[n] # "idle"
    /\ is_precompile(payload.address)

\* C21: a payload of fewer than 4 bytes, at either precompile, is answered
\* with the failure flag and code 6, one of 4 bytes or more whose selector
\* the precompile does not know with the failure flag and code 5 whatever
\* follows the selector, and in both cases neither optimize nor a math_lib
\* primitive is entered and nothing is decoded
ShortAndUnknownRejectedAtTheDoor ==
    \A n \in Nodes :
        /\ PrecompileCalled(n)
        /\ payload.selector \notin SelectorsAt(payload.address)
        => /\ NoCoreInvoked(n)
           /\ pc[n] \in {"execute", "math_call", "call", "returned"}
           /\ pc[n] = "returned" =>
                output[n] = IF Len(payload.selector) < 4
                            THEN <<Zero, FromInt(6)>>
                            ELSE <<Zero, FromInt(5)>>

\* The optimizer precompile has answered an unknown selector followed by a
\* word wider than any field with code 5
UnknownSelectorBeforeWideWord ==
    /\ PrecompileCalled(1)
    /\ payload.address = YIELD_OPTIMIZER_PRECOMPILE_ADDRESS
    /\ payload.selector = <<222, 173, 190, 239>>
    /\ payload.words = <<Add(U128_MAX, One)>>
    /\ pc[1] = "returned"
    /\ output[1] = <<Zero, FromInt(5)>>

\* The documented code of a MathError
CodeOf(e) ==
    CASE e = "InvalidInput" -> 1
      [] e = "Overflow" -> 2
      [] e = "Underflow" -> 3
      [] e = "DivisionByZero" -> 4

\* The documented code of an OptimizerError
OptimizerCodeOf(e) == IF e = InvalidInput THEN 1 ELSE CodeOf(e[2])

\* The math_lib precompile has called a primitive
PrimitiveCalled ==
    mathcall.fn \in {"compound", "annualize", "fee_adjusted_yield",
                     "weighted_average", "optimal_split"}

\* C22: math_error_code and optimizer_error_code give InvalidInput 1,
\* Overflow 2, Underflow 3, DivisionByZero 4, the pipeline-level
\* InvalidInput 1 like Math(InvalidInput); a precompile answers a failure
\* of the function it called with the failure flag and that code; and once
\* the function has been called the answer carries neither code 5 nor 6
CoreFailuresSerializedByTable ==
    /\ mathcall.fn = "math_error_code" /\ mathcall.ret # Pending
       => mathcall.ret.val = FromInt(CodeOf(mathcall.args[1]))
    /\ mathcall.fn = "optimizer_error_code" /\ mathcall.ret # Pending
       => mathcall.ret.val = FromInt(OptimizerCodeOf(mathcall.args[1]))
    /\ \A n \in Nodes :
         PrecompileCalled(n) /\ pc[n] = "returned"
         => /\ PrimitiveCalled /\ ~IsOk(mathcall.ret)
               => output[n] = <<Zero, FromInt(CodeOf(mathcall.ret.val))>>
            /\ result[n] # Pending /\ ~IsOk(result[n])
               => output[n] = <<Zero, FromInt(OptimizerCodeOf(result[n].val))>>
            /\ PrimitiveCalled \/ result[n] # Pending
               => output[n] \notin {<<Zero, FromInt(5)>>, <<Zero, FromInt(6)>>}

\* The math_lib precompile has answered annualize over no window with the
\* code of DivisionByZero
DivisionByZeroAnsweredWithFour ==
    /\ PrecompileCalled(1)
    /\ pc[1] = "returned"
    /\ mathcall.fn = "annualize"
    /\ mathcall.ret = Err("DivisionByZero")
    /\ output[1] = <<Zero, FromInt(4)>>

\* C23: whatever the payload, a precompile that is called returns an
\* encoded response: it never stops on a panic, and what it returns starts
\* with the success flag or is the failure flag followed by a code. A word
\* wider than its uint32, uint64 or uint128 field is a payload like any other.
EveryPayloadAnswered ==
    \A n \in Nodes :
        PrecompileCalled(n)
        => /\ pc[n] # "panic"
           /\ pc[n] = "returned"
              => \/ Len(output[n]) >= 2 /\ output[n][1] = One
                 \/ \E c \in 1..6 : output[n] = <<Zero, FromInt(c)>>

\* C24: execute returns Some(bytes) for every input exactly when
\* is_precompile(address) is true and None for every other address; the
\* math-lib address is served by the math_lib handler and the optimizer
\* address by the optimizer handler, never the other way round.
ExecuteAnswersExactlyPrecompiles ==
    \A n \in Nodes :
        payload # NoPayload /\ pc[n] # "idle"
        => /\ pc[n] # "panic"
           /\ pc[n] = "returned"
              => (output[n] # None <=> is_precompile(payload.address))
           /\ is_precompile(payload.address)
              <=> payload.address \in {MATH_LIB_PRECOMPILE_ADDRESS,
                                       YIELD_OPTIMIZER_PRECOMPILE_ADDRESS}
           /\ payload.address # YIELD_OPTIMIZER_PRECOMPILE_ADDRESS
              => input[n] = NoInput /\ result[n] = Pending
           /\ payload.address # MATH_LIB_PRECOMPILE_ADDRESS
              => mathcall = NoMathCall

\* C25: fee_adjusted_yield never returns Underflow; for a fee of at most
\* 10000 bps whose product with the gross yield g fits 128 bits it returns
\* Ok(net) with 0 <= net <= g and net == g - floor(g * f / 10000), the
\* fee floor(g * f / 10000) being at most g.
FeeNeverUnderflows ==
    FeeCallReturned
    => /\ mathcall.ret # Err("Underflow")
       /\ /\ Leq(mathcall.args[2], FromInt(10000))
          /\ Leq(Mul(mathcall.args[1], mathcall.args[2]), U128_MAX)
          => /\ IsOk(mathcall.ret)
             /\ Leq(Zero, mathcall.ret.val)
             /\ Leq(mathcall.ret.val, mathcall.args[1])
             /\ \E fee \in {Sub(mathcall.args[1], mathcall.ret.val)} :
                  /\ Leq(fee, mathcall.args[1])
                  /\ Leq(Mul(fee, FromInt(10000)),
                         Mul(mathcall.args[1], mathcall.args[2]))
                  /\ Lt(Mul(mathcall.args[1], mathcall.args[2]),
                        Mul(Add(fee, One), FromInt(10000)))

\* A fee of 99.99% on 9999 units has left one unit
NearFullFeeLeftOne ==
    /\ FeeCallReturned
    /\ mathcall.args = <<FromInt(9999), FromInt(9999)>>
    /\ mathcall.ret = Ok(One)

\* C26: in every recommendation optimize returns, hydradx_principal is
\* floor(principal * hydradx_pct / 100), interlay_principal is principal
\* minus hydradx_principal, the two add up to the principal, and a HydraDX
\* share of 0% gets a principal of 0.
PrincipalSplitByFlooredShare ==
    \A n \in Nodes :
        Returned(n) /\ Recommended(n)
        => /\ Leq(Mul(local[n].hydradx_principal, FromInt(100)),
                  Mul(input[n].principal, local[n].hydradx_pct))
           /\ Lt(Mul(input[n].principal, local[n].hydradx_pct),
                 Mul(Add(local[n].hydradx_principal, One), FromInt(100)))
           /\ Leq(local[n].hydradx_principal, input[n].principal)
           /\ local[n].interlay_principal
                = Sub(input[n].principal, local[n].hydradx_principal)
           /\ Add(local[n].hydradx_principal, local[n].interlay_principal)
                = input[n].principal
           /\ local[n].hydradx_pct = result[n].val.hydradx_allocation_pct
           /\ IsZero(local[n].hydradx_pct)
              => IsZero(local[n].hydradx_principal)

\* A principal of one unit was split 50/50: HydraDX got the floor, 0, and
\* Interlay the rest
OneUnitSplitInHalf ==
    /\ Returned(1) /\ Recommended(1)
    /\ input[1].principal = One
    /\ local[1].hydradx_pct = FromInt(50)
    /\ local[1].hydradx_principal = Zero
    /\ local[1].interlay_principal = One

\* compound has returned from a call with 128- and 32-bit arguments
CompoundReturned ==
    /\ mathcall.fn = "compound"
    /\ mathcall.ret # Pending
    /\ Leq(mathcall.args[1], U128_MAX)
    /\ Leq(mathcall.args[2], U32_MAX)
    /\ Leq(mathcall.args[3], U32_MAX)

\* C27: compound never wraps. With principal, rate and periods all
\* positive it returns Overflow exactly when 10000 * periods + rate_bps or
\* the product of some step exceeds 2^128 - 1, and then no partial amount;
\* otherwise it returns the amount of the unbounded computation. It never
\* returns DivisionByZero, Underflow or InvalidInput.
CompoundOverflowsExactlyWhenAProductDoes ==
    CompoundReturned
    => /\ mathcall.ret.tag \in {"Ok", "Err"}
       /\ IsErr(mathcall.ret) => mathcall.ret = Err("Overflow")
       /\ mathcall.ret = Err("Overflow")
          <=> /\ ~IsZero(mathcall.args[1])
              /\ ~IsZero(mathcall.args[2])
              /\ ~IsZero(mathcall.args[3])
              /\ \/ Gt(Add(Mul(FromInt(10000), mathcall.args[3]),
                           mathcall.args[2]), U128_MAX)
                 \/ IsNone(Reference(mathcall.args[1], mathcall.args[2],
                                     mathcall.args[3]))
       /\ IsOk(mathcall.ret)
          => mathcall.ret.val = Reference(mathcall.args[1], mathcall.args[2],
                                          mathcall.args[3])

\* compound(1e27, u32::MAX, 2) has returned Overflow from its second step:
\* the product of the first step fits
SecondStepOverflowed ==
    /\ CompoundReturned
    /\ mathcall.args = <<BillionDot, U32_MAX, FromInt(2)>>
    /\ mathcall.ret = Err("Overflow")
    /\ Leq(Mul(BillionDot, Add(FromInt(20000), U32_MAX)), U128_MAX)

\* C28: whenever compound succeeds its result is at least the principal,
\* called on its own or by optimize on the principal and on each side's
\* share; and optimize returns a recommendation, InvalidInput,
\* Math(InvalidInput) or Math(Overflow), never Math(Underflow) or
\* Math(DivisionByZero).
CompoundNeverShrinksOptimizeNeverUnderflows ==
    /\ CompoundReturned /\ IsOk(mathcall.ret)
       => Leq(mathcall.args[1], mathcall.ret.val)
    /\ \A n \in Nodes :
         /\ IsSome(local[n].hydradx_compounded)
            => Leq(input[n].principal, local[n].hydradx_compounded)
         /\ IsSome(local[n].interlay_compounded)
            => Leq(input[n].principal, local[n].interlay_compounded)
         /\ IsSome(local[n].hydradx_final)
            => Leq(local[n].hydradx_principal, local[n].hydradx_final)
         /\ IsSome(local[n].interlay_final)
            => Leq(local[n].interlay_principal, local[n].interlay_final)
         /\ Returned(n)
            => \/ Recommended(n)
               \/ result[n] \in {Err(InvalidInput), Err(Math("InvalidInput")),
                                 Err(Math("Overflow"))}

\* optimize has returned Math(InvalidInput) after a compound that
\* succeeded with more than the principal
InvalidInputAfterGrowth ==
    /\ Returned(1)
    /\ result[1] = Err(Math("InvalidInput"))
    /\ IsSome(local[1].hydradx_compounded)
    /\ Gt(local[1].hydradx_compounded, input[1].principal)

\* C29: in every recommendation optimize returns, projected_net_apy_bps
\* lies between the smaller and the larger of the two net rates it derived
\* (the 32-bit hydradx_net_apy_bps and interlay_net_apy_bps), both
\* included, and when one side holds 100% it is that side's rate.
BlendedRateBetweenTheTwo ==
    \A n \in Nodes :
        Returned(n) /\ Recommended(n)
        => /\ \/ Leq(local[n].hydradx_net_apy_bps,
                     result[n].val.projected_net_apy_bps)
              \/ Leq(local[n].interlay_net_apy_bps,
                     result[n].val.projected_net_apy_bps)
           /\ \/ Leq(result[n].val.projected_net_apy_bps,
                     local[n].hydradx_net_apy_bps)
              \/ Leq(result[n].val.projected_net_apy_bps,
                     local[n].interlay_net_apy_bps)
           /\ /\ result[n].val.hydradx_allocation_pct = FromInt(100)
              /\ result[n].val.interlay_allocation_pct = Zero
              => result[n].val.projected_net_apy_bps
                   = local[n].hydradx_net_apy_bps
           /\ /\ result[n].val.hydradx_allocation_pct = Zero
              /\ result[n].val.interlay_allocation_pct = FromInt(100)
              => result[n].val.projected_net_apy_bps
                   = local[n].interlay_net_apy_bps

\* A recommendation whose blended rate is strictly between the two net
\* rates
BlendedStrictlyBetween ==
    /\ Returned(1) /\ Recommended(1)
    /\ Lt(local[1].interlay_net_apy_bps, result[1].val.projected_net_apy_bps)
    /\ Lt(result[1].val.projected_net_apy_bps, local[1].hydradx_net_apy_bps)

\* C30: in every recommendation optimize returns,
\* expected_yield_dot is at most the larger of the two sides' net yields
\* on the whole principal, fee_adjusted_yield(compound(principal, apy,
\* projection_periods) - principal, fee) for HydraDX and for Interlay.
ExpectedYieldAtMostBestSide ==
    \A n \in Nodes :
        Returned(n) /\ Recommended(n)
        => \/ Leq(result[n].val.expected_yield_dot, local[n].hydradx_net_yield)
           \/ Leq(result[n].val.expected_yield_dot, local[n].interlay_net_yield)

====
